---- MODULE Spec2Model ----
(***************************************************************************)
(* A model of the nokhal storage engine (package database): one            *)
(* append-only, password-protected log file, the in-memory index and       *)
(* bloom filter of a handle, the hint snapshot written on Close, batch     *)
(* commit and compaction.                                                   *)
(*                                                                         *)
(* Bytes are kept symbolic where their content is opaque to the code       *)
(* (values, ciphertexts), and lengths and file offsets are the real byte   *)
(* counts of the on-disk layout.                                           *)
(***************************************************************************)
EXTENDS Integers, Sequences, FiniteSets, TLC

VARIABLES
    disk,     \* the three paths: db (the log), hint (<db>.hint), tmp (<db>.compact)
    h,        \* the open handle (*DB), or NoHandle
    now,      \* time.Now().UnixNano(), in ticks since the log was created
    batch,    \* Batch.writes of the one staged batch
    last,     \* the call that returned last, with its arguments and result
    faults,   \* the number of faults (crashes, failed writes) so far
    iter,     \* the one Iterator of the handle, or NoIter
    mu        \* db.mu: the writer that holds the lock and what it has left
              \* to do, and the number of readers that hold the read lock

vars == <<disk, h, now, batch, last, faults, iter, mu>>

(***************************************************************************)
(* Bounds of the model.                                                    *)
(***************************************************************************)
MaxSegs == 2      \* frames (complete or torn) the log may hold
MaxTime == 2      \* last tick of the clock
MaxFaults == 1    \* faults injected in one behaviour
MaxBatch == 3     \* writes staged on one batch
MaxLog == 3       \* frames of the log an iterator is taken over
MaxPast == 2      \* calls of Next past the last key
MaxReaders == 2   \* readers that hold the read lock at once

(***************************************************************************)
(* Inputs.                                                                 *)
(***************************************************************************)
Passwords == {"pw1", "pw2"}
VShort == [t |-> "raw", d |-> "x", n |-> 1]
VLong == [t |-> "raw", d |-> "A", n |-> 200]
\* The calls of Put / PutWithTTL: <<collection, key, value, ttl>>.
PutInputs == {<<"u", "a", VShort, 0>>, <<"u", "a", VLong, 0>>,
              <<"c", "a", VShort, 0>>, <<"c", "a", VShort, 1>>}
\* The calls of Delete: <<collection, key>>.
DeleteInputs == {<<"u", "a">>, <<"c", "a">>}
\* The keys asked for; <<"u", "b">> is never written.
Pairs == {<<"u", "a">>, <<"c", "a">>, <<"u", "b">>}
NonceSpace == {1}
\* The puts a fault can hit, and the bytes of the frame written before it.
FaultInputs == {<<"u", "a", VShort, 0>>}
TornLens == {10, 40}

(***************************************************************************)
(* record.go: sizes of the on-disk layout.                                 *)
(***************************************************************************)
magicHeader == "NOKHAL"
version == 4
crcSize == 4
recordHeaderSize == crcSize + 8 + 8 + 1 + 4 + 4 + 4
opSize == 1
nonceSize == 12
authTagSize == 16
v4HeaderSize == 99
OpPut == 0
OpDelete == 1
FlagNone == 0
FlagCompressed == 1
bloomSize == 100000
compressMin == 128

(***************************************************************************)
(* Byte strings.  A value is d repeated n times; a deflate stream and an   *)
(* AEAD ciphertext are symbolic terms over what they were made from.       *)
(***************************************************************************)
NilBytes == [t |-> "nil"]

RECURSIVE ByteLen(_)
ByteLen(b) ==
    CASE b.t = "nil" -> 0
      [] b.t = "raw" -> b.n
      [] b.t = "z"   -> 11 + (b.of.n \div 64)
      [] b.t = "ct"  -> ByteLen(b.p) + authTagSize

\* compress: flate.BestSpeed of the whole value.
compress(v) == [t |-> "z", of |-> v]

\* A reader that hands the stored bytes on without inflating them.
decompressSkipped(b) == [ok |-> TRUE, v |-> b]

\* decompress: inflate; an input that is no deflate stream is an error.
decompress(b) ==
    IF b.t = "z" THEN [ok |-> TRUE, v |-> b.of] ELSE [ok |-> FALSE, v |-> NilBytes]

\* cipher.AEAD.Seal under key k: the ciphertext authenticates nonce and aad.
Seal(k, nonce, plaintext, aad) ==
    [t |-> "ct", k |-> k, nonce |-> nonce, p |-> plaintext, aad |-> aad]

\* An AEAD that opens a ciphertext under any key.
AeadOpenAnyKey(k, nonce, ct, aad) ==
    IF ct.t = "ct" /\ ct.nonce = nonce /\ ct.aad = aad
    THEN [ok |-> TRUE, p |-> ct.p]
    ELSE [ok |-> FALSE, p |-> NilBytes]

\* cipher.AEAD.Open: fails unless key, nonce and aad are those of Seal.
AeadOpen(k, nonce, ct, aad) ==
    IF ct.t = "ct" /\ ct.k = k /\ ct.nonce = nonce /\ ct.aad = aad
    THEN [ok |-> TRUE, p |-> ct.p]
    ELSE [ok |-> FALSE, p |-> NilBytes]

\* argon2.IDKey(password, salt, ...): the KEK.
deriveKey(password, salt) == [pw |-> password, salt |-> salt]

compositeKey(collection, key) == collection \o ":" \o key

\* The associated data of a record: compKey || big_endian_u64(timestamp).
Aad(compKey, ts) == <<compKey, ts>>

(***************************************************************************)
(* Bloom filter: one FNV-1a 32-bit hash, kept in two 16-bit limbs.         *)
(***************************************************************************)
Ord(ch) ==
    CASE ch = ":" -> 58
      [] ch = "a" -> 97
      [] ch = "b" -> 98
      [] ch = "c" -> 99
      [] ch = "u" -> 117

RECURSIVE Xor8(_, _, _)
Xor8(x, y, bits) ==
    IF bits = 0 THEN 0
    ELSE ((x + y) % 2) + 2 * Xor8(x \div 2, y \div 2, bits - 1)

\* One round of fnv.New32a: h = (h XOR byte) * 16777619 mod 2^32,
\* with 16777619 = 2^24 + 403 and h = <<hi, lo>>.
FnvRound(hl, byte) ==
    LET lo1 == (hl[2] - (hl[2] % 256)) + Xor8(hl[2] % 256, byte, 8)
        lo2 == lo1 * 403
        hi2 == hl[1] * 403 + (lo2 \div 65536) + (lo1 % 256) * 256
    IN  <<hi2 % 65536, lo2 % 65536>>

RECURSIVE FnvFrom(_, _, _)
FnvFrom(hl, s, i) ==
    IF i > Len(s) THEN hl
    ELSE FnvFrom(FnvRound(hl, Ord(SubSeq(s, i, i))), s, i + 1)

\* BloomFilter.hash(s) % bf.Size, the offset basis being 2166136261.
HashMod(s) ==
    LET hl == FnvFrom(<<33052, 40389>>, s, 1)
        hiPart == (((hl[1] * 256) % bloomSize) * 256) % bloomSize
    IN  (hiPart + hl[2]) % bloomSize

\* The bits of the keys asked for, computed once.
KnownBits == [s \in {compositeKey(p[1], p[2]) : p \in Pairs} |-> HashMod(s)]

BloomIdx(s) == IF s \in DOMAIN KnownBits THEN KnownBits[s] ELSE HashMod(s)

\* NewBloomFilter(100000): no bit set.  The filter is the set of set bits.
NewBloomFilter == {}
BloomAdd(bf, key) == bf \cup {BloomIdx(key)}
BloomContains(bf, key) == BloomIdx(key) \in bf

(***************************************************************************)
(* Record codec.  A frame is the decoded view of its bytes; crc is the     *)
(* stored CRC-32 and Checksum the CRC-32 of the bytes after it.            *)
(***************************************************************************)
Checksum(r) == <<r.ts, r.exp, r.flags, r.coll, r.key, r.op, r.nonce, r.val>>

FrameSize(r) ==
    recordHeaderSize + opSize + Len(r.coll) + Len(r.key) + nonceSize + ByteLen(r.val)

\* record.Encode: the frame with its CRC written last.
Encode(r) ==
    [crc |-> Checksum(r), ts |-> r.ts, exp |-> r.exp, flags |-> r.flags,
     coll |-> r.coll, key |-> r.key, op |-> r.op, nonce |-> r.nonce, val |-> r.val]

\* The record a frame of the file decodes to.
Decode(f) ==
    [ts |-> f.ts, exp |-> f.exp, flags |-> f.flags, coll |-> f.coll,
     key |-> f.key, op |-> f.op, nonce |-> f.nonce, val |-> f.val]

(***************************************************************************)
(* Files.  A log is its header and a sequence of segments, each the first  *)
(* n bytes of a frame (n = FrameSize: the whole frame).                    *)
(***************************************************************************)
NoFile == [kind |-> "none"]

RECURSIVE SegBytes(_, _)
SegBytes(segs, i) == IF i = 0 THEN 0 ELSE segs[i].n + SegBytes(segs, i - 1)

\* The file offset at which segment i starts (i = Len + 1: the end of file).
SegStart(segs, i) == v4HeaderSize + SegBytes(segs, i - 1)

FileSize(f) ==
    CASE f.kind = "log"   -> SegStart(f.segs, Len(f.segs) + 1)
      [] f.kind = "junk"  -> f.size
      [] f.kind = "short" -> f.size
      [] OTHER            -> 0

Whole(f) == [f |-> f, n |-> FrameSize(f)]
IsWhole(seg) == seg.n = FrameSize(seg.f)

ErrNil == "nil"
ErrEOF == "EOF"
ErrNotFound == "key not found"
ErrChecksumMismatch == "checksum mismatch"
ErrInvalidFile == "invalid file format"
ErrDecryption == "decryption failed"
ErrInvalidPassword == "invalid password"

ReadOk(f) == [err |-> ErrNil, rec |-> Decode(f), size |-> FrameSize(f)]
ReadErr(e) == [err |-> e, rec |-> NilBytes, size |-> 0]

\* readRecord(offset): the outcomes of the two ReadAt calls and the CRC check.
\* Bytes that are not a frame (an offset inside a frame, or a torn frame
\* followed by later writes) decode to arbitrary lengths: the read then runs
\* past the end of file (io.EOF) or fails its CRC.
readRecord(f, offset) ==
    LET segs == f.segs
        avail == FileSize(f) - offset
        at == {i \in 1..Len(segs) : SegStart(segs, i) = offset}
    IN  IF avail < recordHeaderSize THEN {ReadErr(ErrEOF)}
        ELSE IF at = {} THEN {ReadErr(ErrEOF), ReadErr(ErrChecksumMismatch)}
        ELSE LET seg == segs[CHOOSE i \in at : TRUE]
             IN  IF IsWhole(seg)
                 THEN IF seg.f.crc = Checksum(seg.f)
                      THEN {ReadOk(seg.f)}
                      ELSE {ReadErr(ErrChecksumMismatch)}
                 ELSE IF seg.n < recordHeaderSize
                 THEN {ReadErr(ErrEOF), ReadErr(ErrChecksumMismatch)}
                 ELSE IF avail < FrameSize(seg.f)
                 THEN {ReadErr(ErrEOF)}
                 ELSE {ReadErr(ErrChecksumMismatch)}

(***************************************************************************)
(* The handle.  index is a function from composite keys to offsets, bloom  *)
(* the set of set bits, dek the key of the data AEAD; fopen tells whether  *)
(* db.file is an open descriptor.                                          *)
(***************************************************************************)
NoHandle == [st |-> "none"]
EmptyIndex == [k \in {} |-> 0]

Handle(offset, index, bloom, dek) ==
    [st |-> "open", offset |-> offset, index |-> index, bloom |-> bloom,
     dek |-> dek, fopen |-> TRUE]

\* An index that keeps the first offset recorded for a key.
IndexPutKeepFirst(index, key, offset) ==
    [k \in DOMAIN index \cup {key} |-> IF k \in DOMAIN index THEN index[k] ELSE offset]

IndexPut(index, key, offset) ==
    [k \in DOMAIN index \cup {key} |-> IF k = key THEN offset ELSE index[k]]
IndexDel(index, key) == [k \in DOMAIN index \ {key} |-> index[k]]

AppendSegs(f, segs) == [f EXCEPT !.segs = @ \o segs]

\* writeRecord: one file.Write of the encoded frame at the end of the file,
\* then the index (for a put) and the offset.  The result is <<handle, file>>.
writeRecord(hd, f, r) ==
    LET enc == Encode(r)
        idx == IF r.op = OpPut
               THEN IndexPut(hd.index, compositeKey(r.coll, r.key), hd.offset)
               ELSE hd.index
    IN  <<[hd EXCEPT !.index = idx, !.offset = @ + FrameSize(enc)],
          AppendSegs(f, <<Whole(enc)>>)>>

\* The value sealed and the flags: compressed iff longer than 128 bytes and
\* the deflate stream is strictly shorter.
FinalValue(value) ==
    IF ByteLen(value) > compressMin /\ ByteLen(compress(value)) < ByteLen(value)
    THEN [v |-> compress(value), flags |-> FlagCompressed]
    ELSE [v |-> value, flags |-> FlagNone]

ExpiresAt(t, ttl) == IF ttl > 0 THEN t + ttl ELSE 0

\* A record that carries the value (compressed or not) as it is, unsealed.
PutRecordPlain(dek, collection, key, value, ttl, nonce, t) ==
    LET fv == FinalValue(value)
    IN  [ts |-> t, exp |-> ExpiresAt(t, ttl), flags |-> fv.flags,
         coll |-> collection, key |-> key, op |-> OpPut, nonce |-> nonce,
         val |-> fv.v]

\* The record PutWithTTL and Batch.Commit build for a put at time t.
PutRecord(dek, collection, key, value, ttl, nonce, t) ==
    LET fv == FinalValue(value)
    IN  [ts |-> t, exp |-> ExpiresAt(t, ttl), flags |-> fv.flags,
         coll |-> collection, key |-> key, op |-> OpPut, nonce |-> nonce,
         val |-> Seal(dek, nonce, fv.v, Aad(compositeKey(collection, key), t))]

\* A PutWithTTL that indexes the record and leaves the bloom filter alone.
PutWithTTLNoBloom(hd, f, collection, key, value, ttl, nonce, t) ==
    writeRecord(hd, f, PutRecord(hd.dek, collection, key, value, ttl, nonce, t))

\* PutWithTTL: <<handle, file>> after a successful call.
PutWithTTL(hd, f, collection, key, value, ttl, nonce, t) ==
    LET w == writeRecord(hd, f, PutRecord(hd.dek, collection, key, value, ttl, nonce, t))
    IN  <<[w[1] EXCEPT !.bloom = BloomAdd(@, compositeKey(collection, key))], w[2]>>

\* An expiry that takes effect at the deadline itself.
ExpiredAtDeadline(rec, t) == rec.exp > 0 /\ rec.exp <= t

Expired(rec, t) == rec.exp > 0 /\ rec.exp < t

GetOk(v) == [err |-> ErrNil, v |-> v]
GetErr(e) == [err |-> e, v |-> NilBytes]

\* A Get that builds the associated data from the collection and key stored
\* in the frame it read.
GetFromStoredKey(hd, compKey, rd, t) ==
    IF rd.err # ErrNil THEN GetErr(rd.err)
    ELSE IF Expired(rd.rec, t) THEN GetErr(ErrNotFound)
    ELSE LET o == AeadOpen(hd.dek, rd.rec.nonce, rd.rec.val,
                           Aad(compositeKey(rd.rec.coll, rd.rec.key), rd.rec.ts))
         IN  IF ~o.ok THEN GetErr(ErrDecryption)
             ELSE IF rd.rec.flags % 2 = FlagCompressed
             THEN LET d == decompress(o.p)
                  IN  IF d.ok THEN GetOk(d.v) ELSE GetErr("flate: corrupt input")
             ELSE GetOk(o.p)

\* A Get that does not look at the expiry of the record.
GetFromNoExpiry(hd, compKey, rd, t) ==
    IF rd.err # ErrNil THEN GetErr(rd.err)
    ELSE LET o == AeadOpen(hd.dek, rd.rec.nonce, rd.rec.val, Aad(compKey, rd.rec.ts))
         IN  IF ~o.ok THEN GetErr(ErrDecryption)
             ELSE IF rd.rec.flags % 2 = FlagCompressed
             THEN LET d == decompress(o.p)
                  IN  IF d.ok THEN GetOk(d.v) ELSE GetErr("flate: corrupt input")
             ELSE GetOk(o.p)

\* What Get does with the record read at the indexed offset.
GetFrom(hd, compKey, rd, t) ==
    IF rd.err # ErrNil THEN GetErr(rd.err)
    ELSE IF Expired(rd.rec, t) THEN GetErr(ErrNotFound)
    ELSE LET o == AeadOpen(hd.dek, rd.rec.nonce, rd.rec.val, Aad(compKey, rd.rec.ts))
         IN  IF ~o.ok THEN GetErr(ErrDecryption)
             ELSE IF rd.rec.flags % 2 = FlagCompressed
             THEN LET d == decompress(o.p)
                  IN  IF d.ok THEN GetOk(d.v) ELSE GetErr("flate: corrupt input")
             ELSE GetOk(o.p)

\* Get: the set of results the call can return at time t.
Get(hd, f, collection, key, t) ==
    LET compKey == compositeKey(collection, key)
    IN  IF ~BloomContains(hd.bloom, compKey) THEN {GetErr(ErrNotFound)}
        ELSE IF compKey \notin DOMAIN hd.index THEN {GetErr(ErrNotFound)}
        ELSE {GetFrom(hd, compKey, rd, t) : rd \in readRecord(f, hd.index[compKey])}

\* The tombstone Delete writes: all-zero nonce, no value.
DeleteRecord(collection, key, t) ==
    [ts |-> t, exp |-> 0, flags |-> FlagNone, coll |-> collection, key |-> key,
     op |-> OpDelete, nonce |-> 0, val |-> NilBytes]

\* A Delete that writes the tombstone and leaves the index entry.
DeleteKeepEntry(hd, f, collection, key, t) ==
    IF compositeKey(collection, key) \notin DOMAIN hd.index THEN <<hd, f>>
    ELSE writeRecord(hd, f, DeleteRecord(collection, key, t))

\* A Delete that writes its tombstone whether the key is in the index or not.
DeleteAlways(hd, f, collection, key, t) ==
    LET w == writeRecord(hd, f, DeleteRecord(collection, key, t))
    IN  <<[w[1] EXCEPT !.index = IndexDel(@, compositeKey(collection, key))], w[2]>>

\* Delete: <<handle, file>> after the call.
Delete(hd, f, collection, key, t) ==
    LET idxKey == compositeKey(collection, key)
    IN  IF idxKey \notin DOMAIN hd.index THEN <<hd, f>>
        ELSE LET w == writeRecord(hd, f, DeleteRecord(collection, key, t))
             IN  <<[w[1] EXCEPT !.index = IndexDel(@, idxKey)], w[2]>>

(***************************************************************************)
(* Hint file: magic, last offset, gob(index), gob(bloom).  upto names the  *)
(* last part that reached the file ("all": the whole snapshot).            *)
(***************************************************************************)
hintMagic == "NOKHAL_HINT"

\* A snapshot with the offset and an empty index.
saveHintNoIndex(hd) ==
    [kind |-> "hint", magic |-> hintMagic, offset |-> hd.offset,
     index |-> EmptyIndex, bloom |-> hd.bloom, upto |-> "all"]

\* saveHint: the file Close leaves at <db>.hint.
saveHint(hd) ==
    [kind |-> "hint", magic |-> hintMagic, offset |-> hd.offset,
     index |-> hd.index, bloom |-> hd.bloom, upto |-> "all"]

\* loadHint: the offset and whether it returned nil, with db.index and
\* db.bloom as the call leaves them.  Both are decoded in place: when the
\* file is missing, shorter than the magic ("magic") or of another magic, or
\* ends in the offset or the index ("offset"), they are as Open made them;
\* when the index decoded and the bloom filter did not ("index"), db.index
\* is the decoded one.
loadHint(hf) ==
    IF hf.kind = "hint" /\ hf.magic = hintMagic /\ hf.upto = "all"
    THEN [ok |-> TRUE, offset |-> hf.offset, index |-> hf.index, bloom |-> hf.bloom]
    ELSE IF hf.kind = "hint" /\ hf.magic = hintMagic /\ hf.upto = "index"
    THEN [ok |-> FALSE, offset |-> 0, index |-> hf.index, bloom |-> NewBloomFilter]
    ELSE [ok |-> FALSE, offset |-> 0, index |-> EmptyIndex, bloom |-> NewBloomFilter]

ScanEnd(err, offset, index, bloom) ==
    [err |-> err, offset |-> offset, index |-> index, bloom |-> bloom]

\* The scan loop of loadIndexes from offset: io.EOF ends it cleanly, any
\* other read error is returned.
RECURSIVE ScanLog(_, _, _, _)
ScanLog(f, offset, index, bloom) ==
    IF offset >= FileSize(f) THEN {ScanEnd(ErrNil, offset, index, bloom)}
    ELSE UNION {
        IF rd.err = ErrEOF THEN {ScanEnd(ErrNil, offset, index, bloom)}
        ELSE IF rd.err # ErrNil THEN {ScanEnd(rd.err, offset, index, bloom)}
        ELSE LET key == compositeKey(rd.rec.coll, rd.rec.key)
             IN  IF rd.rec.op = OpPut
                 THEN ScanLog(f, offset + rd.size, IndexPut(index, key, offset),
                              BloomAdd(bloom, key))
                 ELSE ScanLog(f, offset + rd.size, IndexDel(index, key), bloom)
        : rd \in readRecord(f, offset)}

\* A loadIndexes that scans from the header when the hint fails and keeps
\* what loadHint had decoded.
loadIndexesKeepDecoded(f, hf) ==
    LET hint == loadHint(hf)
    IN  IF hint.ok THEN ScanLog(f, hint.offset, hint.index, hint.bloom)
        ELSE ScanLog(f, v4HeaderSize, hint.index, hint.bloom)

\* loadIndexes: start from the hint when it loads, else from the header
\* with a new index and a new bloom filter.
loadIndexes(f, hf) ==
    LET hint == loadHint(hf)
    IN  IF hint.ok THEN ScanLog(f, hint.offset, hint.index, hint.bloom)
        ELSE ScanLog(f, v4HeaderSize, EmptyIndex, NewBloomFilter)

(***************************************************************************)
(* Open.                                                                   *)
(***************************************************************************)
dekLabel == "NOKHAL_DEK"

\* The 99-byte header of the create path.
NewHeader(password, salt, kekNonce, dek) ==
    [magic |-> magicHeader, version |-> version, salt |-> salt,
     kekNonce |-> kekNonce,
     encDek |-> Seal(deriveKey(password, salt), kekNonce, dek, dekLabel)]

OpenResult(err, hd, f) == [err |-> err, h |-> hd, db |-> f]

\* Open on a missing or empty file: write the header, empty index.
OpenCreate(password, salt, kekNonce, dek) ==
    OpenResult(ErrNil, Handle(v4HeaderSize, EmptyIndex, NewBloomFilter, dek),
               [kind |-> "log", hdr |-> NewHeader(password, salt, kekNonce, dek),
                segs |-> <<>>])

\* fmt.Errorf("unsupported version: %d (expected %d)", ...): an error that
\* is none of the package's error values.
ErrUnsupported == "unsupported version"

\* io.ReadFull(file, header) into a zeroed buffer of 99 bytes: the bytes
\* read (n) and the magic and version the buffer then shows.  A file of kind
\* "short" is the first size bytes of a header; one of kind "junk" is
\* random bytes.
ReadHeader(f) ==
    CASE f.kind = "log" ->
            [n |-> v4HeaderSize, magic |-> f.hdr.magic, version |-> f.hdr.version]
      [] f.kind = "short" ->
            [n |-> f.size,
             magic |-> IF f.size >= Len(magicHeader) THEN f.hdr.magic ELSE "",
             version |-> IF f.size > Len(magicHeader) THEN f.hdr.version ELSE 0]
      [] OTHER ->
            [n |-> IF FileSize(f) < v4HeaderSize THEN FileSize(f) ELSE v4HeaderSize,
             magic |-> "", version |-> 0]

\* Open on an existing file: the set of results (the scan may end either
\* way on bytes that are no frame).
OpenExisting(f, hf, password) ==
    IF ReadHeader(f).n < Len(magicHeader) \/ ReadHeader(f).magic # magicHeader
    THEN {OpenResult(ErrInvalidFile, NoHandle, f)}
    ELSE IF ReadHeader(f).version # version
    THEN {OpenResult(ErrUnsupported, NoHandle, f)}
    ELSE IF ReadHeader(f).n < v4HeaderSize
    THEN {OpenResult(ErrInvalidFile, NoHandle, f)}
    ELSE LET dk == AeadOpen(deriveKey(password, f.hdr.salt), f.hdr.kekNonce,
                            f.hdr.encDek, dekLabel)
         IN  IF ~dk.ok THEN {OpenResult(ErrInvalidPassword, NoHandle, f)}
             ELSE {IF sc.err # ErrNil THEN OpenResult(sc.err, NoHandle, f)
                   ELSE OpenResult(ErrNil, Handle(sc.offset, sc.index, sc.bloom, dk.p), f)
                   : sc \in loadIndexes(f, hf)}

Open(f, hf, password, salt, kekNonce, dek) ==
    IF f.kind = "none" \/ FileSize(f) = 0
    THEN {OpenCreate(password, salt, kekNonce, dek)}
    ELSE OpenExisting(f, hf, password)

(***************************************************************************)
(* Compaction.                                                             *)
(***************************************************************************)
\* The orders in which ranging over a map can visit its keys.
RECURSIVE Orders(_)
Orders(S) ==
    IF S = {} THEN {<<>>}
    ELSE UNION {{<<k>> \o o : o \in Orders(S \ {k})} : k \in S}

\* A loop that copies every record it can read, expired or not.
RECURSIVE CompactLoopKeepExpired(_, _, _, _, _)
CompactLoopKeepExpired(hd, f, order, t, acc) ==
    IF order = <<>> THEN acc
    ELSE LET keyStr == Head(order)
             rds == {rd \in readRecord(f, hd.index[keyStr]) : rd.err = ErrNil}
         IN  IF rds = {} THEN CompactLoopKeepExpired(hd, f, Tail(order), t, acc)
             ELSE LET rec == (CHOOSE rd \in rds : TRUE).rec
                  IN  CompactLoopKeepExpired(hd, f, Tail(order), t,
                          [segs |-> acc.segs \o <<Whole(Encode(rec))>>,
                           index |-> IndexPut(acc.index, keyStr, acc.offset),
                           offset |-> acc.offset + FrameSize(Encode(rec))])

\* The loop of Compact over the index in the given order: a record that
\* cannot be read or has expired is skipped, the others are re-encoded into
\* the temp file.  acc is [segs, index, offset].
RECURSIVE CompactLoop(_, _, _, _, _)
CompactLoop(hd, f, order, t, acc) ==
    IF order = <<>> THEN acc
    ELSE LET keyStr == Head(order)
             rds == {rd \in readRecord(f, hd.index[keyStr]) : rd.err = ErrNil}
         IN  IF rds = {} THEN CompactLoop(hd, f, Tail(order), t, acc)
             ELSE LET rec == (CHOOSE rd \in rds : TRUE).rec
                  IN  IF Expired(rec, t) THEN CompactLoop(hd, f, Tail(order), t, acc)
                      ELSE CompactLoop(hd, f, Tail(order), t,
                               [segs |-> acc.segs \o <<Whole(Encode(rec))>>,
                                index |-> IndexPut(acc.index, keyStr, acc.offset),
                                offset |-> acc.offset + FrameSize(Encode(rec))])

\* A Compact that writes a header of its own, the DEK sealed again under a
\* fresh salt and nonce, in place of the copy of the first 99 bytes.
CompactTempNewHeader(hd, f, order, t) ==
    LET acc == CompactLoop(hd, f, order, t,
                   [segs |-> <<>>, index |-> EmptyIndex, offset |-> v4HeaderSize])
    IN  [file |-> [kind |-> "log",
                   hdr |-> NewHeader(f.hdr.encDek.k.pw, "s2", 2, hd.dek),
                   segs |-> acc.segs],
         index |-> acc.index, offset |-> acc.offset]

\* The temp file <db>.compact and the new index and offset.
CompactTemp(hd, f, order, t) ==
    LET acc == CompactLoop(hd, f, order, t,
                   [segs |-> <<>>, index |-> EmptyIndex, offset |-> v4HeaderSize])
    IN  [file |-> [kind |-> "log", hdr |-> f.hdr, segs |-> acc.segs],
         index |-> acc.index, offset |-> acc.offset]

\* A Compact that keeps the offsets of the old log.
CompactHandleOldIndex(hd, ct) == [hd EXCEPT !.offset = ct.offset]

\* The handle after a successful Compact: new index and offset, the bloom
\* filter as it was.
CompactHandle(hd, ct) == [hd EXCEPT !.index = ct.index, !.offset = ct.offset]

\* secureDelete overwrites the file in 64 KiB chunks before removing it.
eraseChunk == 65536
Erased(f) ==
    [kind |-> "junk",
     size |-> ((FileSize(f) + eraseChunk - 1) \div eraseChunk) * eraseChunk]

(***************************************************************************)
(* Batch.                                                                  *)
(***************************************************************************)
BatchPutOp(collection, key, value, ttl) ==
    [collection |-> collection, key |-> key, value |-> value, ttl |-> ttl, op |-> OpPut]
BatchDeleteOp(collection, key) ==
    [collection |-> collection, key |-> key, value |-> NilBytes, ttl |-> 0, op |-> OpDelete]

\* The record Commit builds for one staged write; all share the timestamp.
BatchRecord(dek, w, nonce, t) ==
    IF w.op = OpPut
    THEN PutRecord(dek, w.collection, w.key, w.value, w.ttl, nonce, t)
    ELSE [ts |-> t, exp |-> ExpiresAt(t, w.ttl), flags |-> FlagNone,
          coll |-> w.collection, key |-> w.key, op |-> OpDelete, nonce |-> nonce,
          val |-> NilBytes]

\* batchBuffer: the frames of the staged writes, in staging order.
BatchFrames(dek, writes, nonces, t) ==
    [i \in 1..Len(writes) |-> Whole(Encode(BatchRecord(dek, writes[i], nonces[i], t)))]

\* The updates applied last to first.
RECURSIVE ApplyUpdatesReversed(_, _, _, _)
ApplyUpdatesReversed(hd, frames, i, offset) ==
    IF i > Len(frames) THEN [hd EXCEPT !.offset = offset]
    ELSE LET fr == frames[i].f
             key == compositeKey(fr.coll, fr.key)
             rest == ApplyUpdatesReversed(hd, frames, i + 1, offset + frames[i].n)
         IN  IF fr.op = OpPut
             THEN [rest EXCEPT !.index = IndexPut(@, key, offset),
                               !.bloom = BloomAdd(@, key)]
             ELSE [rest EXCEPT !.index = IndexDel(@, key)]

\* Step 4 and 5 of Commit: the index, bloom filter and offset after the
\* updates of frames[i..], frame i starting at offset.
RECURSIVE ApplyUpdates(_, _, _, _)
ApplyUpdates(hd, frames, i, offset) ==
    IF i > Len(frames) THEN [hd EXCEPT !.offset = offset]
    ELSE LET fr == frames[i].f
             key == compositeKey(fr.coll, fr.key)
             nx == IF fr.op = OpPut
                   THEN [hd EXCEPT !.index = IndexPut(@, key, offset),
                                   !.bloom = BloomAdd(@, key)]
                   ELSE [hd EXCEPT !.index = IndexDel(@, key)]
         IN  ApplyUpdates(nx, frames, i + 1, offset + frames[i].n)

\* A Commit that writes the buffer and moves the offset, and leaves the
\* index and the bloom filter alone.
CommitWriteOnly(hd, f, writes, nonces, t) ==
    LET frames == BatchFrames(hd.dek, writes, nonces, t)
    IN  <<[hd EXCEPT !.offset = @ + SegBytes(frames, Len(frames))],
          AppendSegs(f, frames)>>

\* Commit with the write and the sync succeeding: <<handle, file>>.
Commit(hd, f, writes, nonces, t) ==
    LET frames == BatchFrames(hd.dek, writes, nonces, t)
    IN  <<ApplyUpdates(hd, frames, 1, hd.offset), AppendSegs(f, frames)>>

\* The steps of Commit that can return an error.
CommitSteps == {"nonce", "write", "sync"}

\* A Commit that updates index, bloom filter and offset before the sync
\* whose error it returns.
CommitFailedApplied(hd, f, writes, nonces, t, step, k, n) ==
    LET frames == BatchFrames(hd.dek, writes, nonces, t)
    IN  CASE step = "nonce" -> <<hd, f>>
          [] step = "write" ->
                <<hd, AppendSegs(f, SubSeq(frames, 1, k) \o
                         (IF n = 0 THEN <<>> ELSE <<[frames[k + 1] EXCEPT !.n = n]>>))>>
          [] step = "sync"  ->
                <<ApplyUpdates(hd, frames, 1, hd.offset), AppendSegs(f, frames)>>

\* Commit returning an error: <<handle, file>>.  generateNonce fails before
\* anything is written; file.Write fails after the first k frames of the
\* buffer and n bytes of the next; file.Sync fails after the whole buffer
\* was written.  Each returns before step 4.
CommitFailed(hd, f, writes, nonces, t, step, k, n) ==
    LET frames == BatchFrames(hd.dek, writes, nonces, t)
    IN  CASE step = "nonce" -> <<hd, f>>
          [] step = "write" ->
                <<hd, AppendSegs(f, SubSeq(frames, 1, k) \o
                         (IF n = 0 THEN <<>> ELSE <<[frames[k + 1] EXCEPT !.n = n]>>))>>
          [] step = "sync"  -> <<hd, AppendSegs(f, frames)>>

HasPrefix(str, prefix) ==
    Len(str) >= Len(prefix) /\ SubSeq(str, 1, Len(prefix)) = prefix
TrimPrefix(str, prefix) ==
    IF HasPrefix(str, prefix) THEN SubSeq(str, Len(prefix) + 1, Len(str)) ELSE str

\* List: the keys of the index under prefix collection + ":", prefix removed.
List(hd, collection) ==
    LET prefix == collection \o ":"
    IN  {TrimPrefix(k, prefix) : k \in {x \in DOMAIN hd.index : HasPrefix(x, prefix)}}

\* A List that appends the composite key as it is.
ListSliceNoTrim(hd, collection, order) ==
    LET prefix == collection \o ":"
        Under(k) == HasPrefix(k, prefix)
    IN  SelectSeq(order, Under)

\* List as the slice it returns, the map being ranged over in order.
ListSlice(hd, collection, order) ==
    LET prefix == collection \o ":"
        Under(k) == HasPrefix(k, prefix)
        keys == SelectSeq(order, Under)
    IN  [i \in 1..Len(keys) |-> TrimPrefix(keys[i], prefix)]

(***************************************************************************)
(* ScanPrefix and Filter: one pass over the log from the end of the header *)
(* to db.offset through a buffered section reader.                         *)
(***************************************************************************)
ErrUnexpectedEOF == "unexpected EOF"

\* The two io.ReadFull calls and the CRC check for the frame that is segment
\* i of the file, the section ending at limit.  io.ReadFull returns io.EOF
\* when it read no byte and io.ErrUnexpectedEOF when it read some; after a
\* frame that is not whole the bytes decode to arbitrary lengths.
streamRecord(f, limit, i) ==
    LET seg == f.segs[i]
        end == IF limit < FileSize(f) THEN limit ELSE FileSize(f)
        avail == end - SegStart(f.segs, i)
    IN  IF avail < recordHeaderSize THEN {ReadErr(ErrUnexpectedEOF)}
        ELSE IF ~IsWhole(seg)
        THEN {ReadErr(ErrEOF), ReadErr(ErrUnexpectedEOF), ReadErr(ErrChecksumMismatch)}
        ELSE IF avail = recordHeaderSize THEN {ReadErr(ErrEOF)}
        ELSE IF avail < seg.n THEN {ReadErr(ErrUnexpectedEOF)}
        ELSE IF seg.f.crc = Checksum(seg.f) THEN {ReadOk(seg.f)}
        ELSE {ReadErr(ErrChecksumMismatch)}

NoResults == [k \in {} |-> 0]
ScanOk(results) == [err |-> ErrNil, results |-> results]
ScanErr(e) == [err |-> e, results |-> NoResults]

\* The value of a record read by a scan: AEAD-open under the associated data
\* of the frame's own collection, key and timestamp, then inflate.
ScanValue(hd, rec) ==
    LET o == AeadOpen(hd.dek, rec.nonce, rec.val,
                      Aad(compositeKey(rec.coll, rec.key), rec.ts))
    IN  IF ~o.ok THEN GetErr(ErrDecryption)
        ELSE IF rec.flags % 2 = FlagCompressed
        THEN LET d == decompress(o.p)
             IN  IF d.ok THEN GetOk(d.v) ELSE GetErr("flate: corrupt input")
        ELSE GetOk(o.p)

\* The public Record a scan returns.
PublicRecord(rec, value) ==
    [Timestamp |-> rec.ts, ExpiresAt |-> rec.exp, Collection |-> rec.coll,
     Key |-> rec.key, Value |-> value, Op |-> rec.op]

\* A scan that passes over an expired put and keeps what it holds for the key.
RECURSIVE ScanPrefixLoopSkipExpired(_, _, _, _, _, _, _)
ScanPrefixLoopSkipExpired(hd, f, limit, i, prefix, t, results) ==
    IF i > Len(f.segs) \/ SegStart(f.segs, i) >= limit THEN {ScanOk(results)}
    ELSE UNION {
        IF rd.err = ErrEOF THEN {ScanOk(results)}
        ELSE IF rd.err # ErrNil THEN {ScanErr(rd.err)}
        ELSE LET fullKey == compositeKey(rd.rec.coll, rd.rec.key)
             IN  IF ~HasPrefix(fullKey, prefix)
                 THEN ScanPrefixLoopSkipExpired(hd, f, limit, i + 1, prefix, t, results)
                 ELSE IF rd.rec.op = OpDelete
                 THEN ScanPrefixLoopSkipExpired(hd, f, limit, i + 1, prefix, t,
                                                IndexDel(results, fullKey))
                 ELSE IF Expired(rd.rec, t)
                 THEN ScanPrefixLoopSkipExpired(hd, f, limit, i + 1, prefix, t, results)
                 ELSE LET v == ScanValue(hd, rd.rec)
                      IN  IF v.err # ErrNil THEN {ScanErr(v.err)}
                          ELSE ScanPrefixLoopSkipExpired(hd, f, limit, i + 1, prefix, t,
                                   IndexPut(results, fullKey, PublicRecord(rd.rec, v.v)))
        : rd \in streamRecord(f, limit, i)}

\* The loop of ScanPrefix from segment i on, results being the map it has
\* built so far: the set of <<error, map>> it can end with.
RECURSIVE ScanPrefixLoop(_, _, _, _, _, _, _)
ScanPrefixLoop(hd, f, limit, i, prefix, t, results) ==
    IF i > Len(f.segs) \/ SegStart(f.segs, i) >= limit THEN {ScanOk(results)}
    ELSE UNION {
        IF rd.err = ErrEOF THEN {ScanOk(results)}
        ELSE IF rd.err # ErrNil THEN {ScanErr(rd.err)}
        ELSE LET fullKey == compositeKey(rd.rec.coll, rd.rec.key)
             IN  IF ~HasPrefix(fullKey, prefix)
                 THEN ScanPrefixLoop(hd, f, limit, i + 1, prefix, t, results)
                 ELSE IF rd.rec.op = OpDelete \/ Expired(rd.rec, t)
                 THEN ScanPrefixLoop(hd, f, limit, i + 1, prefix, t,
                                     IndexDel(results, fullKey))
                 ELSE LET v == ScanValue(hd, rd.rec)
                      IN  IF v.err # ErrNil THEN {ScanErr(v.err)}
                          ELSE ScanPrefixLoop(hd, f, limit, i + 1, prefix, t,
                                   IndexPut(results, fullKey, PublicRecord(rd.rec, v.v)))
        : rd \in streamRecord(f, limit, i)}

\* ScanPrefix at time t; the slice returned is the range of the map.
ScanPrefix(hd, f, prefix, t) == ScanPrefixLoop(hd, f, hd.offset, 1, prefix, t, NoResults)

\* The predicates handed to Filter, and fn(key, value) for each.
Preds == {"all", "short", "keyA", "none"}
Holds(fn, key, value) ==
    CASE fn = "all"   -> TRUE
      [] fn = "short" -> ByteLen(value) <= compressMin
      [] fn = "keyA"  -> key = "a"
      [] OTHER        -> FALSE

\* A Filter that leaves the map alone when the predicate returns false.
RECURSIVE FilterLoopKeepMatched(_, _, _, _, _, _, _, _)
FilterLoopKeepMatched(hd, f, limit, i, collection, fn, t, results) ==
    IF i > Len(f.segs) \/ SegStart(f.segs, i) >= limit THEN {ScanOk(results)}
    ELSE UNION {
        IF rd.err = ErrEOF THEN {ScanOk(results)}
        ELSE IF rd.err # ErrNil THEN {ScanErr(rd.err)}
        ELSE IF rd.rec.coll # collection
        THEN FilterLoopKeepMatched(hd, f, limit, i + 1, collection, fn, t, results)
        ELSE IF rd.rec.op = OpDelete \/ Expired(rd.rec, t)
        THEN FilterLoopKeepMatched(hd, f, limit, i + 1, collection, fn, t,
                                   IndexDel(results, rd.rec.key))
        ELSE LET v == ScanValue(hd, rd.rec)
             IN  IF v.err # ErrNil THEN {ScanErr(v.err)}
                 ELSE IF Holds(fn, rd.rec.key, v.v)
                 THEN FilterLoopKeepMatched(hd, f, limit, i + 1, collection, fn, t,
                                            IndexPut(results, rd.rec.key, v.v))
                 ELSE FilterLoopKeepMatched(hd, f, limit, i + 1, collection, fn, t,
                                            results)
        : rd \in streamRecord(f, limit, i)}

\* The loop of Filter from segment i on; results maps a key of the
\* collection to the value the predicate last accepted.
RECURSIVE FilterLoop(_, _, _, _, _, _, _, _)
FilterLoop(hd, f, limit, i, collection, fn, t, results) ==
    IF i > Len(f.segs) \/ SegStart(f.segs, i) >= limit THEN {ScanOk(results)}
    ELSE UNION {
        IF rd.err = ErrEOF THEN {ScanOk(results)}
        ELSE IF rd.err # ErrNil THEN {ScanErr(rd.err)}
        ELSE IF rd.rec.coll # collection
        THEN FilterLoop(hd, f, limit, i + 1, collection, fn, t, results)
        ELSE IF rd.rec.op = OpDelete \/ Expired(rd.rec, t)
        THEN FilterLoop(hd, f, limit, i + 1, collection, fn, t,
                        IndexDel(results, rd.rec.key))
        ELSE LET v == ScanValue(hd, rd.rec)
             IN  IF v.err # ErrNil THEN {ScanErr(v.err)}
                 ELSE IF Holds(fn, rd.rec.key, v.v)
                 THEN FilterLoop(hd, f, limit, i + 1, collection, fn, t,
                                 IndexPut(results, rd.rec.key, v.v))
                 ELSE FilterLoop(hd, f, limit, i + 1, collection, fn, t,
                                 IndexDel(results, rd.rec.key))
        : rd \in streamRecord(f, limit, i)}

\* Filter at time t: the map whose values the call returns.
Filter(hd, f, collection, fn, t) ==
    FilterLoop(hd, f, hd.offset, 1, collection, fn, t, NoResults)

\* The slice Filter returns, the map being ranged over in order.
FilterSlice(results, order) == [i \in 1..Len(order) |-> results[order[i]]]

(***************************************************************************)
(* Iterator: the keys of the index under a prefix, copied and sorted when  *)
(* the iterator is made; idx counts from -1 as in the code.                *)
(***************************************************************************)
NoIter == [st |-> "none"]

\* a < b as sort.Strings compares: byte by byte, a proper prefix first.
RECURSIVE StrLess(_, _)
StrLess(a, b) ==
    IF Len(b) = 0 THEN FALSE
    ELSE IF Len(a) = 0 THEN TRUE
    ELSE LET x == Ord(SubSeq(a, 1, 1))
             y == Ord(SubSeq(b, 1, 1))
         IN  IF x # y THEN x < y
             ELSE StrLess(SubSeq(a, 2, Len(a)), SubSeq(b, 2, Len(b)))

\* sort.Strings of the keys collected from the map.
RECURSIVE SortStrings(_)
SortStrings(S) ==
    IF S = {} THEN <<>>
    ELSE LET m == CHOOSE x \in S : \A y \in S : ~StrLess(y, x)
         IN  <<m>> \o SortStrings(S \ {m})

\* The keys in the reverse of the sorted order, as a map may be ranged over.
RECURSIVE Descending(_)
Descending(S) ==
    IF S = {} THEN <<>>
    ELSE LET m == CHOOSE x \in S : \A y \in S : ~StrLess(x, y)
         IN  <<m>> \o Descending(S \ {m})

\* A NewIterator that leaves the keys in the order the map gave them.
NewIteratorUnsorted(hd, prefix) ==
    [st |-> "open", keys |-> Descending({k \in DOMAIN hd.index : HasPrefix(k, prefix)}),
     idx |-> -1, valid |-> FALSE, prefix |-> prefix]

NewIterator(hd, prefix) ==
    [st |-> "open", keys |-> SortStrings({k \in DOMAIN hd.index : HasPrefix(k, prefix)}),
     idx |-> -1, valid |-> FALSE, prefix |-> prefix]

\* Next: the iterator after the call; the call returns its valid field.
IterNext(it) ==
    IF it.idx + 1 >= Len(it.keys)
    THEN [it EXCEPT !.idx = @ + 1, !.valid = FALSE]
    ELSE [it EXCEPT !.idx = @ + 1, !.valid = TRUE]

IterPanic == "panic: index out of range"

\* Key: keys[idx], the slice being indexed from 0.
IterKey(it) ==
    IF ~it.valid THEN ""
    ELSE IF it.idx >= Len(it.keys) THEN IterPanic
    ELSE it.keys[it.idx + 1]

\* strings.SplitN(fullKey, ":", 2): <<collection, key>>.
RECURSIVE ColonAt(_, _)
ColonAt(str, i) ==
    IF i > Len(str) THEN 0
    ELSE IF SubSeq(str, i, i) = ":" THEN i
    ELSE ColonAt(str, i + 1)

SplitKey(fullKey) ==
    LET i == ColonAt(fullKey, 1)
    IN  IF i = 0 THEN <<"", fullKey>>
        ELSE <<SubSeq(fullKey, 1, i - 1), SubSeq(fullKey, i + 1, Len(fullKey))>>

\* A Value that hands the whole composite key to Get as the key.
IterValueNoSplit(it, hd, f, t) ==
    IF ~it.valid THEN {GetErr(ErrNotFound)}
    ELSE IF it.idx >= Len(it.keys) THEN {GetErr(IterPanic)}
    ELSE Get(hd, f, "", it.keys[it.idx + 1], t)

\* Value: the results of db.Get on the split key, at time t.
IterValue(it, hd, f, t) ==
    IF ~it.valid THEN {GetErr(ErrNotFound)}
    ELSE IF it.idx >= Len(it.keys) THEN {GetErr(IterPanic)}
    ELSE LET sk == SplitKey(it.keys[it.idx + 1])
         IN  Get(hd, f, sk[1], sk[2], t)

\* Close: it.keys = nil.
IterClose(it) == [it EXCEPT !.st = "closed", !.keys = <<>>]

(***************************************************************************)
(* db.mu, a sync.RWMutex.  w is the call that holds the write lock, with   *)
(* the handle and the files it will leave and the steps it has not yet     *)
(* made; r counts the holders of the read lock.                            *)
(***************************************************************************)
NoCall == [op |-> "none"]
Unlocked == [w |-> NoCall, r |-> 0]

\* An RLock that does not wait for the writer.
CanRLockAlways(m) == TRUE

\* RLock returns only while no writer holds the lock.
CanRLock(m) == m.w = NoCall

\* Lock returns only while nobody holds the lock.
CanLock(m) == m.w = NoCall /\ m.r = 0

\* The steps of a writer between Lock and Unlock, in the order of the code;
\* each names the parts of the state it assigns.
WriterSteps(op) ==
    CASE op = "put"     -> <<{"file"}, {"index"}, {"offset"}, {"bloom"}>>
      [] op = "delete"  -> <<{"file"}, {"offset"}, {"index"}>>
      [] op = "commit"  -> <<{"file"}, {"index", "bloom"}, {"offset"}>>
      [] op = "compact" -> <<{"file"}, {"hint"}, {"offset"}, {"index"}>>
      [] op = "close"   -> <<{"hint"}, {"fd"}>>

\* The handle after a step that assigns parts from the handle to.
StepHandle(hd, to, parts) ==
    IF "fd" \in parts THEN NoHandle
    ELSE [hd EXCEPT !.index  = IF "index" \in parts THEN to.index ELSE @,
                    !.offset = IF "offset" \in parts THEN to.offset ELSE @,
                    !.bloom  = IF "bloom" \in parts THEN to.bloom ELSE @]

\* The files after a step that assigns parts from the files to.
StepDisk(d, to, parts) ==
    [d EXCEPT !.db   = IF "file" \in parts THEN to.db ELSE @,
              !.tmp  = IF "file" \in parts THEN to.tmp ELSE @,
              !.hint = IF "hint" \in parts THEN to.hint ELSE @]

(***************************************************************************)
(* The state machine.  Every API call is one action: the handle's lock     *)
(* makes it atomic for the other calls.                                    *)
(***************************************************************************)
Salts == {"s1"}
Deks == {"dek1"}
Collections == {p[1] : p \in Pairs}
\* The calls of batch.Put and batch.Delete.
BatchPuts == {BatchPutOp("u", "a", VShort, 0)}
BatchDeletes == {BatchDeleteOp("u", "a")}

NoDisk == [db |-> NoFile, hint |-> NoFile, tmp |-> NoFile]
Started == [op |-> "start"]

\* The database has just been created by Open(path, "pw1").
Created == OpenCreate("pw1", "s1", 1, "dek1")

Init ==
    /\ disk = [NoDisk EXCEPT !.db = Created.db]
    /\ h = Created.h
    /\ now = 0
    /\ batch = <<>>
    /\ last = Started
    /\ faults = 0
    /\ iter = NoIter
    /\ mu = Unlocked

IsOpen == h.st = "open" /\ h.fopen
Room(n) == disk.db.kind = "log" /\ Len(disk.db.segs) + n <= MaxSegs

\* The handle of the last Close, kept over failed attempts to open.
PrevHandle ==
    IF last.op = "close" THEN last.h
    ELSE IF last.op = "open" /\ last.err # ErrNil THEN last.prev
    ELSE NoHandle

\* Open(path, password) when no handle is open.
DoOpen(password) ==
    /\ h = NoHandle
    /\ \E salt \in Salts, kekNonce \in NonceSpace, dek \in Deks :
       \E r \in Open(disk.db, disk.hint, password, salt, kekNonce, dek) :
          /\ h' = r.h
          /\ disk' = [disk EXCEPT !.db = r.db]
          /\ last' = [op |-> "open", pw |-> password, err |-> r.err,
                      prev |-> PrevHandle]
    /\ UNCHANGED <<now, batch, faults, iter, mu>>

\* db.PutWithTTL(collection, key, value, ttl); Put is ttl = 0.
DoPut(collection, key, value, ttl) ==
    /\ IsOpen /\ Room(1)
    /\ \E nonce \in NonceSpace :
          LET w == PutWithTTL(h, disk.db, collection, key, value, ttl, nonce, now)
          IN  /\ h' = w[1]
              /\ disk' = [disk EXCEPT !.db = w[2]]
    /\ last' = [op |-> "put", c |-> collection, k |-> key, v |-> value,
                ttl |-> ttl, err |-> ErrNil]
    /\ UNCHANGED <<now, batch, faults, iter, mu>>

\* db.Delete(collection, key).
DoDelete(collection, key) ==
    /\ IsOpen /\ Room(1)
    /\ LET w == Delete(h, disk.db, collection, key, now)
       IN  /\ h' = w[1]
           /\ disk' = [disk EXCEPT !.db = w[2]]
    /\ last' = [op |-> "delete", c |-> collection, k |-> key,
                was |-> compositeKey(collection, key) \in DOMAIN h.index,
                err |-> ErrNil]
    /\ UNCHANGED <<now, batch, faults, iter, mu>>

\* batch.Put and batch.Delete: staging only.
DoBatchPut(w) ==
    /\ IsOpen /\ Room(Len(batch) + 1)
    /\ batch' = batch \o <<w>>
    /\ last' = [op |-> "stage"]
    /\ UNCHANGED <<disk, h, now, faults, iter, mu>>

DoBatchDelete(w) ==
    /\ IsOpen /\ Room(Len(batch) + 1)
    /\ batch' = batch \o <<w>>
    /\ last' = [op |-> "stage"]
    /\ UNCHANGED <<disk, h, now, faults, iter, mu>>

\* batch.Commit(): nothing to do on an empty batch.
DoCommit ==
    /\ IsOpen /\ Room(Len(batch))
    /\ IF batch = <<>> THEN UNCHANGED <<disk, h>>
       ELSE \E nonces \in [1..Len(batch) -> NonceSpace] :
               LET w == Commit(h, disk.db, batch, nonces, now)
               IN  /\ h' = w[1]
                   /\ disk' = [disk EXCEPT !.db = w[2]]
    /\ batch' = <<>>
    /\ last' = [op |-> "commit", writes |-> batch, err |-> ErrNil]
    /\ UNCHANGED <<now, faults, iter, mu>>

Range(fn) == {fn[x] : x \in DOMAIN fn}

\* The frames of the log no index entry points to: superseded puts and
\* tombstones.
DeadFrames(hd, f) ==
    {i \in 1..Len(f.segs) : SegStart(f.segs, i) \notin Range(hd.index)}

\* What a caller sees of the database at time t: the result of get for
\* every key asked for.
Gets(hd, f, t) == [p \in Pairs |-> Get(hd, f, p[1], p[2], t)]

\* db.Compact(): temp file, secure erase of the old log, rename, hint removed.
\* The call is recorded with whether the log had dead frames before it.
DoCompact ==
    /\ IsOpen
    /\ \E order \in Orders(DOMAIN h.index) :
          LET ct == CompactTemp(h, disk.db, order, now)
          IN  /\ h' = CompactHandle(h, ct)
              /\ disk' = [db |-> ct.file, hint |-> NoFile, tmp |-> NoFile]
    /\ last' = [op |-> "compact", err |-> ErrNil,
                dead |-> DeadFrames(h, disk.db) # {}]
    /\ UNCHANGED <<now, batch, faults, iter, mu>>

\* db.Close(): the hint is saved, the file closed.
DoClose ==
    /\ IsOpen
    /\ disk' = [disk EXCEPT !.hint = saveHint(h)]
    /\ h' = NoHandle
    /\ batch' = <<>>
    /\ last' = [op |-> "close", h |-> h]
    /\ UNCHANGED <<now, faults, iter, mu>>

\* Time passes.  The code reads the clock to stamp a record and to compare
\* it with a record's ExpiresAt, so the clock is advanced only while the
\* log holds a record whose ExpiresAt is not yet in the past.
PendingTTL ==
    /\ disk.db.kind = "log"
    /\ \E i \in 1..Len(disk.db.segs) : disk.db.segs[i].f.exp >= now

Tick ==
    /\ now < MaxTime
    /\ PendingTTL
    /\ now' = now + 1
    /\ UNCHANGED <<disk, h, batch, last, faults, iter, mu>>

Next ==
    \/ \E password \in Passwords : DoOpen(password)
    \/ \E i \in PutInputs : DoPut(i[1], i[2], i[3], i[4])
    \/ \E p \in DeleteInputs : DoDelete(p[1], p[2])
    \/ \E w \in BatchPuts : DoBatchPut(w)
    \/ \E w \in BatchDeletes : DoBatchDelete(w)
    \/ DoCommit
    \/ DoCompact
    \/ DoClose
    \/ Tick

Spec == Init /\ [][Next]_vars

(***************************************************************************)
(* Faults: the process dying, and a write or a sync of the log failing.    *)
(***************************************************************************)
Crashed == [op |-> "crash", step |-> "none"]
ErrIO == "input/output error"

\* The frame of a put as PutWithTTL hands it to file.Write.
PutFrame(hd, collection, key, value, ttl, nonce, t) ==
    Encode(PutRecord(hd.dek, collection, key, value, ttl, nonce, t))

\* A frame of which only the first n bytes reached the file.
Torn(f, n) == [f |-> f, n |-> n]

\* A frame whose length reached the file but whose bytes did not: the CRC
\* stored does not match the bytes after it.
Corrupt(f) == [f |-> [f EXCEPT !.crc = <<>>], n |-> FrameSize(f)]

MayFail == faults < MaxFaults

\* The process dies with no call in progress; Close never ran.
Crash ==
    /\ IsOpen /\ MayFail
    /\ h' = NoHandle
    /\ batch' = <<>>
    /\ last' = Crashed
    /\ UNCHANGED <<disk, now>>
    /\ faults' = faults + 1
    /\ UNCHANGED <<iter, mu>>

\* The process dies inside the file.Write of writeRecord, n bytes written.
CrashInPut(collection, key, value, ttl, n) ==
    /\ IsOpen /\ MayFail /\ Room(1)
    /\ \E nonce \in NonceSpace :
          LET enc == PutFrame(h, collection, key, value, ttl, nonce, now)
          IN  /\ n < FrameSize(enc)
              /\ disk' = [disk EXCEPT !.db = AppendSegs(@, <<Torn(enc, n)>>)]
    /\ h' = NoHandle
    /\ batch' = <<>>
    /\ last' = Crashed
    /\ UNCHANGED now
    /\ faults' = faults + 1
    /\ UNCHANGED <<iter, mu>>

\* The machine dies after file.Write returned and before the data blocks of
\* the frame reached the disk: the file has the frame's length, not its bytes.
CrashAfterPut(collection, key, value, ttl) ==
    /\ IsOpen /\ MayFail /\ Room(1)
    /\ \E nonce \in NonceSpace :
          LET enc == PutFrame(h, collection, key, value, ttl, nonce, now)
          IN  disk' = [disk EXCEPT !.db = AppendSegs(@, <<Corrupt(enc)>>)]
    /\ h' = NoHandle
    /\ batch' = <<>>
    /\ last' = Crashed
    /\ UNCHANGED now
    /\ faults' = faults + 1
    /\ UNCHANGED <<iter, mu>>

\* file.Write of writeRecord returns an error after n bytes: PutWithTTL
\* returns it, index and offset are left as they were.
FailPut(collection, key, value, ttl, n) ==
    /\ IsOpen /\ MayFail /\ Room(1)
    /\ \E nonce \in NonceSpace :
          LET enc == PutFrame(h, collection, key, value, ttl, nonce, now)
          IN  /\ n < FrameSize(enc)
              /\ disk' = [disk EXCEPT !.db = AppendSegs(@, <<Torn(enc, n)>>)]
    /\ last' = [op |-> "put", c |-> collection, k |-> key, v |-> value,
                ttl |-> ttl, err |-> ErrIO]
    /\ UNCHANGED <<h, now, batch>>
    /\ faults' = faults + 1
    /\ UNCHANGED <<iter, mu>>

\* Commit whose file.Write succeeds and whose file.Sync fails: the error is
\* returned before the index and the offset are updated.
FailCommit ==
    /\ IsOpen /\ MayFail /\ Room(Len(batch))
    /\ batch # <<>>
    /\ \E nonces \in [1..Len(batch) -> NonceSpace] :
          disk' = [disk EXCEPT !.db = Commit(h, disk.db, batch, nonces, now)[2]]
    /\ last' = [op |-> "commit", writes |-> batch, err |-> ErrIO]
    /\ UNCHANGED <<h, now, batch>>
    /\ faults' = faults + 1
    /\ UNCHANGED <<iter, mu>>

\* The process dies inside the file.Write of Commit, the first k frames of
\* the batch buffer written.
CrashInCommit(k) ==
    /\ IsOpen /\ MayFail /\ Room(Len(batch))
    /\ k < Len(batch)
    /\ \E nonces \in [1..Len(batch) -> NonceSpace] :
          disk' = [disk EXCEPT !.db =
                      AppendSegs(@, SubSeq(BatchFrames(h.dek, batch, nonces, now), 1, k))]
    /\ h' = NoHandle
    /\ batch' = <<>>
    /\ last' = Crashed
    /\ UNCHANGED now
    /\ faults' = faults + 1
    /\ UNCHANGED <<iter, mu>>

\* The steps of Compact at which the process can die.
CompactSteps == {"synced", "erasing", "removed", "renamed"}

\* The temp file <db>.compact left behind.  Nothing reads its bytes (Compact
\* truncates it, Open ignores it), so only its presence is kept.
TempLeft == [kind |-> "temp"]

\* The three paths when Compact died at step: the temp file is complete
\* ("synced"), the old log is being overwritten ("erasing"), the old log is
\* removed ("removed"), the temp file is renamed and the hint still there
\* ("renamed").
CompactDisk(d, ct, step) ==
    CASE step = "synced"  -> [d EXCEPT !.tmp = TempLeft]
      [] step = "erasing" -> [d EXCEPT !.tmp = TempLeft, !.db = Erased(d.db)]
      [] step = "removed" -> [d EXCEPT !.tmp = TempLeft, !.db = NoFile]
      [] step = "renamed" -> [d EXCEPT !.tmp = NoFile, !.db = ct.file]

CrashInCompact(step) ==
    /\ IsOpen /\ MayFail
    /\ \E order \in Orders(DOMAIN h.index) :
          disk' = CompactDisk(disk, CompactTemp(h, disk.db, order, now), step)
    /\ h' = NoHandle
    /\ batch' = <<>>
    /\ last' = [op |-> "crash", step |-> step]
    /\ UNCHANGED now
    /\ faults' = faults + 1
    /\ UNCHANGED <<iter, mu>>

\* The process dies inside saveHint, after the magic and the offset.
CrashInClose ==
    /\ IsOpen /\ MayFail
    /\ disk' = [disk EXCEPT !.hint = [saveHint(h) EXCEPT !.upto = "offset"]]
    /\ h' = NoHandle
    /\ batch' = <<>>
    /\ last' = Crashed
    /\ UNCHANGED now
    /\ faults' = faults + 1
    /\ UNCHANGED <<iter, mu>>

Fault ==
    \/ Crash
    \/ \E i \in FaultInputs, n \in TornLens : CrashInPut(i[1], i[2], i[3], i[4], n)
    \/ \E i \in FaultInputs : CrashAfterPut(i[1], i[2], i[3], i[4])
    \/ \E i \in FaultInputs, n \in TornLens : FailPut(i[1], i[2], i[3], i[4], n)
    \/ FailCommit
    \/ \E k \in 0..MaxSegs : CrashInCommit(k)
    \/ \E step \in CompactSteps : CrashInCompact(step)
    \/ CrashInClose

NextCrash == Next \/ Fault

SpecCrash == Init /\ [][NextCrash]_vars

\* The process may die between calls and nothing else goes wrong: the next
\* Open finds the log complete and the hint file of the last Close, if any.
NextLost == Next \/ Crash

SpecLost == Init /\ [][NextLost]_vars

(***************************************************************************)
(* A byte of a frame changed on the medium while the log is closed.        *)
(***************************************************************************)
\* Bit 0 of the first byte of the big-endian uint32 value size.
valSizeFlip == 16777216

\* The frame with a byte of its payload changed: the stored CRC no longer
\* matches.
FlipPayload(seg) == Corrupt(seg.f)

\* The frame with the first byte of its value size changed: the header
\* decodes to a frame of 16 MiB more than the bytes that are there.
FlipValSize(seg) ==
    [f |-> [seg.f EXCEPT !.val = [t |-> "raw", d |-> "?",
                                  n |-> ByteLen(seg.f.val) + valSizeFlip]],
     n |-> seg.n]

FlipKinds == {"payload", "valsize"}

\* One frame of a closed log is damaged; the log has no damaged frame yet.
CorruptFrame(i, kind) ==
    /\ h = NoHandle
    /\ disk.db.kind = "log"
    /\ i \in 1..Len(disk.db.segs)
    /\ \A j \in 1..Len(disk.db.segs) :
          IsWhole(disk.db.segs[j]) /\ disk.db.segs[j].f.crc = Checksum(disk.db.segs[j].f)
    /\ disk' = [disk EXCEPT !.db.segs[i] =
                    IF kind = "payload" THEN FlipPayload(@) ELSE FlipValSize(@)]
    /\ last' = [op |-> "corrupt", seg |-> i, kind |-> kind, prev |-> PrevHandle]
    /\ UNCHANGED <<h, now, batch, faults, iter, mu>>

NextCorrupt ==
    \/ NextLost
    \/ \E i \in 1..MaxSegs, kind \in FlipKinds : CorruptFrame(i, kind)

SpecCorrupt == Init /\ [][NextCorrupt]_vars

(***************************************************************************)
(* Two frames of the log exchanged by hand.                                *)
(***************************************************************************)
\* Frames i and j, puts of two different keys and of the same length, are
\* exchanged in the file; the index of an open handle and the hint file
\* stay as they are.
SwapFrames(i, j) ==
    /\ MayFail
    /\ disk.db.kind = "log"
    /\ i < j /\ j <= Len(disk.db.segs)
    /\ LET a == disk.db.segs[i]
           b == disk.db.segs[j]
       IN  /\ IsWhole(a) /\ a.f.crc = Checksum(a.f)
           /\ IsWhole(b) /\ b.f.crc = Checksum(b.f)
           /\ a.n = b.n
           /\ a.f.op = OpPut /\ b.f.op = OpPut
           /\ compositeKey(a.f.coll, a.f.key) # compositeKey(b.f.coll, b.f.key)
           /\ disk' = [disk EXCEPT !.db.segs[i] = b, !.db.segs[j] = a]
    /\ last' = [op |-> "swap", prev |-> PrevHandle]
    /\ faults' = faults + 1
    /\ UNCHANGED <<h, now, batch, iter, mu>>

\* The calls made around an exchange of frames: puts, a compaction, close
\* and reopen, with the clock running.
NextSwap ==
    \/ \E i \in PutInputs : DoPut(i[1], i[2], i[3], i[4])
    \/ DoCompact
    \/ DoClose
    \/ DoOpen("pw1")
    \/ Tick
    \/ \E i \in 1..MaxSegs, j \in 1..MaxSegs : SwapFrames(i, j)

SpecSwap == Init /\ [][NextSwap]_vars

(***************************************************************************)
(* A closed log whose header is not the one Open wrote: another magic,     *)
(* another version byte, or fewer than 99 bytes.                           *)
(***************************************************************************)
\* The sizes a log is cut to: inside the magic, the magic alone, magic and
\* version, and a part of the salt.
ShortSizes == {3, 6, 7, 50}
\* The version byte of the format before this one.
oldVersion == 3

BreakMagic ==
    /\ h = NoHandle /\ MayFail
    /\ disk.db.kind = "log"
    /\ disk' = [disk EXCEPT !.db.hdr.magic = "NOKHAX"]
    /\ last' = [op |-> "damage", prev |-> PrevHandle]
    /\ faults' = faults + 1
    /\ UNCHANGED <<h, now, batch, iter, mu>>

BreakVersion ==
    /\ h = NoHandle /\ MayFail
    /\ disk.db.kind \in {"log", "short"}
    /\ disk' = [disk EXCEPT !.db.hdr.version = oldVersion]
    /\ last' = [op |-> "damage", prev |-> PrevHandle]
    /\ faults' = faults + 1
    /\ UNCHANGED <<h, now, batch, iter, mu>>

CutHeader(n) ==
    /\ h = NoHandle /\ MayFail
    /\ disk.db.kind = "log"
    /\ disk' = [disk EXCEPT !.db = [kind |-> "short", hdr |-> @.hdr, size |-> n]]
    /\ last' = [op |-> "damage", prev |-> PrevHandle]
    /\ faults' = faults + 1
    /\ UNCHANGED <<h, now, batch, iter, mu>>

NextHeader ==
    \/ \E i \in PutInputs : DoPut(i[1], i[2], i[3], i[4])
    \/ DoClose
    \/ \E password \in Passwords : DoOpen(password)
    \/ BreakMagic
    \/ BreakVersion
    \/ \E n \in ShortSizes : CutHeader(n)

SpecHeader == Init /\ [][NextHeader]_vars

(***************************************************************************)
(* Collections and keys for List: keys that hold the delimiter, and a key  *)
(* of one collection that starts with the name of another.                 *)
(***************************************************************************)
ListPairs == {<<"u", "a">>, <<"u", "a:b">>, <<"c", "a">>, <<"c", "u:a">>}

NextList ==
    \/ \E p \in ListPairs : DoPut(p[1], p[2], VShort, 0)
    \/ \E p \in ListPairs : DoDelete(p[1], p[2])
    \/ DoCompact
    \/ DoClose
    \/ DoOpen("pw1")

SpecList == Init /\ [][NextList]_vars

(***************************************************************************)
(* Logs for Filter: two keys of one collection, a key of another, values   *)
(* on either side of a predicate, an expiry, deletes.                      *)
(***************************************************************************)
FilterInputs ==
    {<<"u", "a", VShort, 0>>, <<"u", "a", VLong, 0>>, <<"u", "b", VShort, 0>>,
     <<"u", "b", VShort, 1>>, <<"c", "a", VShort, 0>>}

NextFilter ==
    \/ \E i \in FilterInputs : DoPut(i[1], i[2], i[3], i[4])
    \/ \E p \in Pairs : DoDelete(p[1], p[2])
    \/ DoCompact
    \/ Tick

SpecFilter == Init /\ [][NextFilter]_vars

(***************************************************************************)
(* Batches of up to MaxBatch staged writes, committed on top of a log of   *)
(* up to MaxSegs frames.                                                   *)
(***************************************************************************)
\* The calls of batch.Put and batch.Delete a caller stages.
BatchOps ==
    {BatchPutOp("u", "a", VShort, 0), BatchPutOp("u", "b", VLong, 1),
     BatchDeleteOp("u", "a"), BatchDeleteOp("u", "b")}

\* batch.Put / batch.Delete: the write is appended to b.writes.
DoStage(w) ==
    /\ IsOpen /\ Room(1)
    /\ Len(batch) < MaxBatch
    /\ batch' = Append(batch, w)
    /\ last' = [op |-> "stage"]
    /\ UNCHANGED <<disk, h, now, faults, iter, mu>>

\* batch.Commit() returning nil, at time now.
DoCommitStaged ==
    /\ IsOpen /\ Room(0)
    /\ IF batch = <<>> THEN UNCHANGED <<disk, h>>
       ELSE \E nonces \in [1..Len(batch) -> NonceSpace] :
               LET w == Commit(h, disk.db, batch, nonces, now)
               IN  /\ h' = w[1]
                   /\ disk' = [disk EXCEPT !.db = w[2]]
    /\ batch' = <<>>
    /\ last' = [op |-> "commit", writes |-> batch, err |-> ErrNil, t |-> now]
    /\ UNCHANGED <<now, faults, iter, mu>>

NextBatch ==
    \/ \E i \in PutInputs : DoPut(i[1], i[2], i[3], i[4])
    \/ \E p \in DeleteInputs : DoDelete(p[1], p[2])
    \/ \E w \in BatchOps : DoStage(w)
    \/ DoCommitStaged

\* The clock stands still here: what a commit leaves is looked at for every
\* later time of Times.
SpecBatch == Init /\ [][NextBatch]_vars

\* batch.Commit() returning an error at step; b.writes is kept.
DoCommitFails(step, k, n) ==
    /\ IsOpen /\ MayFail /\ Room(0)
    /\ batch # <<>>
    /\ k < Len(batch)
    /\ step \in CommitSteps
    /\ step = "write" \/ (k = 0 /\ n = 0)
    /\ \E nonces \in [1..Len(batch) -> NonceSpace] :
          LET w == CommitFailed(h, disk.db, batch, nonces, now, step, k, n)
          IN  /\ h' = w[1]
              /\ disk' = [disk EXCEPT !.db = w[2]]
    /\ last' = [op |-> "commit", writes |-> batch, err |-> ErrIO, t |-> now]
    /\ UNCHANGED <<now, batch>>
    /\ faults' = faults + 1
    /\ UNCHANGED <<iter, mu>>

\* The cuts of a failing file.Write: whole frames written, bytes of the next.
WriteCuts == {<<0, 10>>, <<1, 0>>, <<1, 40>>}

\* Commits that may fail, on a log that holds puts of one key.
NextBatchFail ==
    \/ \E i \in FaultInputs : DoPut(i[1], i[2], i[3], i[4])
    \/ \E w \in BatchOps : DoStage(w)
    \/ DoCommitStaged
    \/ DoCommitFails("nonce", 0, 0)
    \/ \E c \in WriteCuts : DoCommitFails("write", c[1], c[2])
    \/ DoCommitFails("sync", 0, 0)

SpecBatchFail == Init /\ [][NextBatchFail]_vars

(***************************************************************************)
(* One iterator over a log of up to MaxLog frames, with the writes that    *)
(* run after it was made.                                                  *)
(***************************************************************************)
IterInputs ==
    {<<"u", "b", VShort, 0>>, <<"u", "a", VShort, 0>>, <<"c", "a", VShort, 0>>,
     <<"u", "a", VLong, 0>>}
Prefixes == {"", "u:"}

\* db.Put on a log of fewer than MaxLog frames.
IterPut(collection, key, value, ttl) ==
    /\ IsOpen
    /\ Len(disk.db.segs) < MaxLog
    /\ \E nonce \in NonceSpace :
          LET w == PutWithTTL(h, disk.db, collection, key, value, ttl, nonce, now)
          IN  /\ h' = w[1]
              /\ disk' = [disk EXCEPT !.db = w[2]]
    /\ last' = [op |-> "put", c |-> collection, k |-> key, v |-> value,
                ttl |-> ttl, err |-> ErrNil]
    /\ UNCHANGED <<now, batch, faults, iter, mu>>

\* db.Delete on a log of fewer than MaxLog frames.
IterDelete(collection, key) ==
    /\ IsOpen
    /\ Len(disk.db.segs) < MaxLog
    /\ LET w == Delete(h, disk.db, collection, key, now)
       IN  /\ h' = w[1]
           /\ disk' = [disk EXCEPT !.db = w[2]]
    /\ last' = [op |-> "delete", c |-> collection, k |-> key,
                was |-> compositeKey(collection, key) \in DOMAIN h.index,
                err |-> ErrNil]
    /\ UNCHANGED <<now, batch, faults, iter, mu>>

\* The batches committed while an iterator is in use.
IterBatches == {<<BatchDeleteOp("u", "a"), BatchPutOp("u", "b", VLong, 0)>>}

\* A batch staged and committed with no other call in between.
IterCommit(writes) ==
    /\ IsOpen
    /\ batch = <<>>
    /\ Len(disk.db.segs) + Len(writes) <= MaxLog
    /\ \E nonces \in [1..Len(writes) -> NonceSpace] :
          LET w == Commit(h, disk.db, writes, nonces, now)
          IN  /\ h' = w[1]
              /\ disk' = [disk EXCEPT !.db = w[2]]
    /\ last' = [op |-> "commit", writes |-> writes, err |-> ErrNil, t |-> now]
    /\ UNCHANGED <<now, batch, faults, iter, mu>>

\* db.NewIterator(prefix); the index it was taken from is kept with the call.
DoNewIterator(prefix) ==
    /\ IsOpen
    /\ iter = NoIter
    /\ iter' = NewIterator(h, prefix)
    /\ last' = [op |-> "iterator", prefix |-> prefix, index |-> h.index]
    /\ UNCHANGED <<disk, h, now, batch, faults, mu>>

\* it.Next(), up to MaxPast calls past the last key.
DoIterNext ==
    /\ iter.st = "open"
    /\ iter.idx + 1 < Len(iter.keys) + MaxPast
    /\ iter' = IterNext(iter)
    /\ last' = [op |-> "next", ret |-> IterNext(iter).valid]
    /\ UNCHANGED <<disk, h, now, batch, faults, mu>>

\* it.Close().
DoIterClose ==
    /\ iter.st = "open"
    /\ iter' = IterClose(iter)
    /\ last' = [op |-> "iterclose"]
    /\ UNCHANGED <<disk, h, now, batch, faults, mu>>

NextIter ==
    \/ \E i \in IterInputs : IterPut(i[1], i[2], i[3], i[4])
    \/ \E p \in DeleteInputs : IterDelete(p[1], p[2])
    \/ \E writes \in IterBatches : IterCommit(writes)
    \/ DoCompact
    \/ \E prefix \in Prefixes : DoNewIterator(prefix)
    \/ DoIterNext
    \/ DoIterClose

SpecIter == Init /\ [][NextIter]_vars

(***************************************************************************)
(* Writers step by step under db.mu, with readers that take the read lock. *)
(***************************************************************************)
LockCalls ==
    {[op |-> "put", c |-> "u", k |-> "a", v |-> VShort],
     [op |-> "put", c |-> "c", k |-> "a", v |-> VLong],
     [op |-> "delete", c |-> "u", k |-> "a"],
     [op |-> "commit", writes |-> <<BatchPutOp("u", "b", VShort, 0), BatchDeleteOp("u", "a")>>],
     [op |-> "compact"],
     [op |-> "close"]}

\* The frames a call appends.
CallFrames(call) ==
    CASE call.op = "commit" -> Len(call.writes)
      [] call.op \in {"put", "delete"} -> 1
      [] OTHER -> 0

\* What a call leaves when it returns: the handle and the three files.
CallResults(call, hd, d, t) ==
    CASE call.op = "put" ->
            {[hd |-> w[1], disk |-> [d EXCEPT !.db = w[2]]] :
                w \in {PutWithTTL(hd, d.db, call.c, call.k, call.v, 0, n, t) : n \in NonceSpace}}
      [] call.op = "delete" ->
            LET w == Delete(hd, d.db, call.c, call.k, t)
            IN  {[hd |-> w[1], disk |-> [d EXCEPT !.db = w[2]]]}
      [] call.op = "commit" ->
            {[hd |-> w[1], disk |-> [d EXCEPT !.db = w[2]]] :
                w \in {Commit(hd, d.db, call.writes, ns, t) :
                          ns \in [1..Len(call.writes) -> NonceSpace]}}
      [] call.op = "compact" ->
            {[hd |-> CompactHandle(hd, ct),
              disk |-> [db |-> ct.file, hint |-> NoFile, tmp |-> NoFile]] :
                ct \in {CompactTemp(hd, d.db, o, t) : o \in Orders(DOMAIN hd.index)}}
      [] call.op = "close" ->
            {[hd |-> NoHandle, disk |-> [d EXCEPT !.hint = saveHint(hd)]]}

\* db.mu.Lock() of a writer: the call starts.  A Delete of a key that is not
\* in the index returns without a step.
WLock(call) ==
    /\ IsOpen /\ Room(CallFrames(call))
    /\ CanLock(mu)
    /\ \E res \in CallResults(call, h, disk, now) :
          mu' = [mu EXCEPT !.w = [op |-> call.op, hd |-> res.hd, disk |-> res.disk,
                                  todo |-> IF res.disk = disk /\ res.hd = h
                                           THEN <<>> ELSE WriterSteps(call.op)]]
    /\ UNCHANGED <<disk, h, now, batch, last, faults, iter>>

\* The next step of the writer that holds the lock.
WStep ==
    /\ mu.w # NoCall
    /\ mu.w.todo # <<>>
    /\ h' = StepHandle(h, mu.w.hd, Head(mu.w.todo))
    /\ disk' = StepDisk(disk, mu.w.disk, Head(mu.w.todo))
    /\ mu' = [mu EXCEPT !.w.todo = Tail(@)]
    /\ UNCHANGED <<now, batch, last, faults, iter>>

\* The deferred db.mu.Unlock(): the call returns.
WUnlock ==
    /\ mu.w # NoCall
    /\ mu.w.todo = <<>>
    /\ mu' = [mu EXCEPT !.w = NoCall]
    /\ last' = [op |-> mu.w.op, err |-> ErrNil]
    /\ UNCHANGED <<disk, h, now, batch, faults, iter>>

\* db.mu.RLock() of a reader (Get, List, ScanPrefix, Filter, FilterPrefix,
\* NewIterator), which then reads handle and file as they are.
RLock ==
    /\ CanRLock(mu)
    /\ mu.r < MaxReaders
    /\ mu' = [mu EXCEPT !.r = @ + 1]
    /\ UNCHANGED <<disk, h, now, batch, last, faults, iter>>

\* The deferred db.mu.RUnlock().
RUnlock ==
    /\ mu.r > 0
    /\ mu' = [mu EXCEPT !.r = @ - 1]
    /\ UNCHANGED <<disk, h, now, batch, last, faults, iter>>

NextLock ==
    \/ \E call \in LockCalls : WLock(call)
    \/ WStep
    \/ WUnlock
    \/ RLock
    \/ RUnlock

SpecLock == Init /\ [][NextLock]_vars

(***************************************************************************)
(* Compact step by step, from the temp file to the new handle, with the    *)
(* calls of secureDelete that can return an error.  The call holds db.mu   *)
(* throughout: mu.w has the temp file it wrote (ct), the size of the old   *)
(* log, the bytes secureDelete has overwritten from offset 0 (pos) and     *)
(* whether f.Sync ran (flushed).                                           *)
(***************************************************************************)
\* A value whose deflate stream is longer than one chunk of secureDelete.
VHuge == [t |-> "raw", d |-> "A", n |-> 4300000]
EraseInputs == {<<"u", "a", VShort, 0>>, <<"u", "a", VHuge, 0>>, <<"c", "a", VLong, 0>>}
\* The bytes of a chunk that a failing f.Write has written.
ShortWrites == {0, 100}

\* The old log while secureDelete writes over it: size bytes, the first pos
\* of them random.
Overwritten(size, pos) == [kind |-> "junk", size |-> IF pos > size THEN pos ELSE size]

\* Compact up to db.file.Close(): the temp file is written and synced.
CompactBegin ==
    /\ IsOpen
    /\ CanLock(mu)
    /\ \E order \in Orders(DOMAIN h.index) :
          mu' = [mu EXCEPT !.w = [op |-> "compact", pc |-> "open",
                                  ct |-> CompactTemp(h, disk.db, order, now),
                                  size |-> FileSize(disk.db), pos |-> 0,
                                  flushed |-> FALSE,
                                  dead |-> DeadFrames(h, disk.db) # {}]]
    /\ disk' = [disk EXCEPT !.tmp = TempLeft]
    /\ h' = [h EXCEPT !.fopen = FALSE]
    /\ UNCHANGED <<now, batch, last, faults, iter>>

\* secureDelete: os.OpenFile, f.Stat and rand.Read return no error.
EraseOpen ==
    /\ mu.w.op = "compact" /\ mu.w.pc = "open"
    /\ mu' = [mu EXCEPT !.w.pc = "write"]
    /\ UNCHANGED <<disk, h, now, batch, last, faults, iter>>

\* secureDelete: os.OpenFile (for a reason other than a missing file),
\* f.Stat or rand.Read returns an error: the file is removed as it is.
EraseOpenFails ==
    /\ mu.w.op = "compact" /\ mu.w.pc = "open"
    /\ MayFail
    /\ disk' = [disk EXCEPT !.db = NoFile]
    /\ mu' = [mu EXCEPT !.w.pc = "rename"]
    /\ faults' = faults + 1
    /\ UNCHANGED <<h, now, batch, last, iter>>

\* secureDelete: one f.Write of the 64 KiB buffer; the loop ends when the
\* writes have reached the size of the file.
EraseWrite ==
    /\ mu.w.op = "compact" /\ mu.w.pc = "write"
    /\ LET pos == mu.w.pos + eraseChunk
       IN  /\ disk' = [disk EXCEPT !.db = Overwritten(mu.w.size, pos)]
           /\ mu' = [mu EXCEPT !.w.pos = pos,
                               !.w.pc = IF pos < mu.w.size THEN "write" ELSE "sync"]
    /\ UNCHANGED <<h, now, batch, last, faults, iter>>

\* secureDelete: f.Write returns an error after n bytes: break.
EraseWriteFails(n) ==
    /\ mu.w.op = "compact" /\ mu.w.pc = "write"
    /\ MayFail
    /\ LET pos == mu.w.pos + n
       IN  /\ disk' = [disk EXCEPT !.db = Overwritten(mu.w.size, pos)]
           /\ mu' = [mu EXCEPT !.w.pos = pos, !.w.pc = "sync"]
    /\ faults' = faults + 1
    /\ UNCHANGED <<h, now, batch, last, iter>>

\* secureDelete: f.Sync() and f.Close().
EraseSync ==
    /\ mu.w.op = "compact" /\ mu.w.pc = "sync"
    /\ mu' = [mu EXCEPT !.w.flushed = TRUE, !.w.pc = "remove"]
    /\ UNCHANGED <<disk, h, now, batch, last, faults, iter>>

\* secureDelete: os.Remove(path).
EraseRemove ==
    /\ mu.w.op = "compact" /\ mu.w.pc = "remove"
    /\ disk' = [disk EXCEPT !.db = NoFile]
    /\ mu' = [mu EXCEPT !.w.pc = "rename"]
    /\ UNCHANGED <<h, now, batch, last, faults, iter>>

\* Compact: os.Rename(tempPath, db.path), whatever secureDelete returned.
CompactRename ==
    /\ mu.w.op = "compact" /\ mu.w.pc = "rename"
    /\ disk' = [disk EXCEPT !.db = mu.w.ct.file, !.tmp = NoFile]
    /\ mu' = [mu EXCEPT !.w.pc = "hint"]
    /\ UNCHANGED <<h, now, batch, last, faults, iter>>

\* Compact: the hint is removed, the new log opened, offset and index
\* assigned, and the call returns nil.
CompactEnd ==
    /\ mu.w.op = "compact" /\ mu.w.pc = "hint"
    /\ disk' = [disk EXCEPT !.hint = NoFile]
    /\ h' = [CompactHandle(h, mu.w.ct) EXCEPT !.fopen = TRUE]
    /\ last' = [op |-> "compact", err |-> ErrNil, dead |-> mu.w.dead]
    /\ mu' = [mu EXCEPT !.w = NoCall]
    /\ UNCHANGED <<now, batch, faults, iter>>

NextErase ==
    \/ \E i \in EraseInputs : mu = Unlocked /\ DoPut(i[1], i[2], i[3], i[4])
    \/ \E p \in DeleteInputs : mu = Unlocked /\ DoDelete(p[1], p[2])
    \/ CompactBegin
    \/ EraseOpen
    \/ EraseOpenFails
    \/ EraseWrite
    \/ \E n \in ShortWrites : EraseWriteFails(n)
    \/ EraseSync
    \/ EraseRemove
    \/ CompactRename
    \/ CompactEnd

SpecErase == Init /\ [][NextErase]_vars

(***************************************************************************)
(* Compact when one of its own calls returns an error.  The step names the *)
(* call: "create" os.OpenFile of the temp file, "header" the ReadAt or     *)
(* Write of the 99 header bytes, "frame" a tempFile.Write of a record,     *)
(* "sync" tempFile.Sync, "rename" os.Rename, "hint" the os.Remove of the   *)
(* hint file (its error is dropped and Compact goes on), "reopen" the      *)
(* os.OpenFile of the renamed log.                                         *)
(***************************************************************************)
CompactFailSteps == {"create", "header", "frame", "sync", "rename", "hint", "reopen"}

\* What Compact returns when the call of step fails.
CompactErr(step) == IF step = "hint" THEN ErrNil ELSE ErrIO

\* The three paths when Compact returns after the call of step failed.  The
\* deferred os.Remove(tempPath) runs on every return after the temp file was
\* opened; db.file.Close and secureDelete have run before os.Rename.
CompactFailDisk(d, ct, step) ==
    CASE step = "create" -> d
      [] step \in {"header", "frame", "sync"} -> [d EXCEPT !.tmp = NoFile]
      [] step = "rename" -> [d EXCEPT !.tmp = NoFile, !.db = NoFile]
      [] step = "hint"   -> [d EXCEPT !.tmp = NoFile, !.db = ct.file]
      [] step = "reopen" -> [db |-> ct.file, hint |-> NoFile, tmp |-> NoFile]

\* The handle when Compact returns after the call of step failed: db.file
\* is closed before os.Rename and assigned again by the last os.OpenFile;
\* db.offset and db.index are assigned after it.
CompactFailHandle(hd, ct, step) ==
    CASE step \in {"create", "header", "frame", "sync"} -> hd
      [] step \in {"rename", "reopen"} -> [hd EXCEPT !.fopen = FALSE]
      [] step = "hint" -> CompactHandle(hd, ct)

DoCompactFails(step) ==
    /\ IsOpen
    /\ \E order \in Orders(DOMAIN h.index) :
          LET ct == CompactTemp(h, disk.db, order, now)
          IN  /\ step = "frame" => ct.file.segs # <<>>
              /\ step = "hint" => disk.hint # NoFile
              /\ h' = CompactFailHandle(h, ct, step)
              /\ disk' = CompactFailDisk(disk, ct, step)
    /\ last' = [op |-> "compact", err |-> CompactErr(step),
                dead |-> DeadFrames(h, disk.db) # {}, step |-> step]
    /\ UNCHANGED <<now, batch, faults, iter, mu>>

\* The puts before a failing Compact.
CompactFailInputs == {<<"u", "a", VShort, 0>>, <<"c", "a", VLong, 0>>}

NextCompactFail ==
    \/ \E i \in CompactFailInputs : DoPut(i[1], i[2], i[3], i[4])
    \/ DoDelete("u", "a")
    \/ DoCompact
    \/ DoClose
    \/ DoOpen("pw1")
    \/ \E step \in CompactSteps : CrashInCompact(step)
    \/ \E step \in CompactFailSteps : DoCompactFails(step)

SpecCompactFail == Init /\ [][NextCompactFail]_vars

(***************************************************************************)
(* The hint file damaged or removed while the log is closed.               *)
(***************************************************************************)
\* "missing": the file removed; "magic": another magic; "short": cut inside
\* the magic; "offset": cut after the offset; "index": cut after the index.
HintBreaks == {"missing", "magic", "short", "offset", "index"}

BrokenHint(hf, kind) ==
    CASE kind = "missing" -> NoFile
      [] kind = "magic"   -> [hf EXCEPT !.magic = "NOKHAL_HINX"]
      [] kind = "short"   -> [hf EXCEPT !.upto = "magic"]
      [] kind = "offset"  -> [hf EXCEPT !.upto = "offset"]
      [] kind = "index"   -> [hf EXCEPT !.upto = "index"]

BreakHint(kind) ==
    /\ h = NoHandle
    /\ loadHint(disk.hint).ok
    /\ disk' = [disk EXCEPT !.hint = BrokenHint(@, kind)]
    /\ last' = [op |-> "damage", prev |-> PrevHandle]
    /\ UNCHANGED <<h, now, batch, faults, iter, mu>>

NextHint ==
    \/ \E i \in CompactFailInputs : DoPut(i[1], i[2], i[3], i[4])
    \/ DoDelete("u", "a")
    \/ DoCompact
    \/ DoClose
    \/ DoOpen("pw1")
    \/ Crash
    \/ CrashInCompact("renamed")
    \/ \E kind \in HintBreaks : BreakHint(kind)

SpecHint == Init /\ [][NextHint]_vars

(***************************************************************************)
(* Batch.Commit call by call.  The call holds db.mu from CommitLock to     *)
(* CommitReturn; mu.w has the batch buffer (frames), the calls of          *)
(* file.Write and file.Sync made so far (writes, syncs), whether the sync  *)
(* returned nil (synced), the update that comes next (i), the offset it    *)
(* belongs to (off) and what the call is about to return (err).            *)
(***************************************************************************)
\* The numbered steps of Commit after the buffer is prepared, as they follow
\* each other, with the fsync last.
CommitOrderSyncLast == <<"write", "update", "sync", "return">>

\* The numbered steps of Commit after the buffer is prepared (2 to 5), as
\* they follow each other.
CommitOrder == <<"write", "sync", "update", "return">>

\* The step that follows pc.
CommitAfter(pc) ==
    CommitOrder[(CHOOSE i \in 1..(Len(CommitOrder) - 1) : CommitOrder[i] = pc) + 1]

InCommit(pc) == mu.w.op = "commit" /\ mu.w.pc = pc

\* b.db.mu.Lock() and step 1 of a non-empty batch.
CommitLock ==
    /\ IsOpen /\ Room(0)
    /\ batch # <<>>
    /\ CanLock(mu)
    /\ \E nonces \in [1..Len(batch) -> NonceSpace] :
          mu' = [mu EXCEPT !.w = [op |-> "commit", pc |-> CommitOrder[1],
                                  frames |-> BatchFrames(h.dek, batch, nonces, now),
                                  writes |-> 0, syncs |-> 0, synced |-> FALSE,
                                  i |-> 1, off |-> h.offset, err |-> ErrNil]]
    /\ UNCHANGED <<disk, h, now, batch, last, faults, iter>>

\* Step 2: b.db.file.Write(batchBuffer).
CommitFileWrite ==
    /\ InCommit("write")
    /\ disk' = [disk EXCEPT !.db = AppendSegs(@, mu.w.frames)]
    /\ mu' = [mu EXCEPT !.w.writes = @ + 1, !.w.pc = CommitAfter("write")]
    /\ UNCHANGED <<h, now, batch, last, faults, iter>>

\* Step 2 returning an error after the first k frames of the buffer.
CommitFileWriteFails(k) ==
    /\ InCommit("write") /\ MayFail
    /\ k < Len(mu.w.frames)
    /\ disk' = [disk EXCEPT !.db = AppendSegs(@, SubSeq(mu.w.frames, 1, k))]
    /\ mu' = [mu EXCEPT !.w.writes = @ + 1, !.w.pc = "return", !.w.err = ErrIO]
    /\ faults' = faults + 1
    /\ UNCHANGED <<h, now, batch, last, iter>>

\* Step 3: b.db.file.Sync().
CommitFileSync ==
    /\ InCommit("sync")
    /\ mu' = [mu EXCEPT !.w.syncs = @ + 1, !.w.synced = TRUE,
                        !.w.pc = CommitAfter("sync")]
    /\ UNCHANGED <<disk, h, now, batch, last, faults, iter>>

\* Step 3 returning an error.
CommitFileSyncFails ==
    /\ InCommit("sync") /\ MayFail
    /\ mu' = [mu EXCEPT !.w.syncs = @ + 1, !.w.pc = "return", !.w.err = ErrIO]
    /\ faults' = faults + 1
    /\ UNCHANGED <<disk, h, now, batch, last, iter>>

\* Step 4, one update of the loop.
CommitUpdate ==
    /\ InCommit("update")
    /\ mu.w.i <= Len(mu.w.frames)
    /\ LET fr == mu.w.frames[mu.w.i].f
           key == compositeKey(fr.coll, fr.key)
       IN  h' = IF fr.op = OpPut
                THEN [h EXCEPT !.index = IndexPut(@, key, mu.w.off),
                               !.bloom = BloomAdd(@, key)]
                ELSE [h EXCEPT !.index = IndexDel(@, key)]
    /\ mu' = [mu EXCEPT !.w.i = @ + 1, !.w.off = @ + mu.w.frames[mu.w.i].n]
    /\ UNCHANGED <<disk, now, batch, last, faults, iter>>

\* Step 5: b.db.offset = startOffset.
CommitOffset ==
    /\ InCommit("update")
    /\ mu.w.i > Len(mu.w.frames)
    /\ h' = [h EXCEPT !.offset = mu.w.off]
    /\ mu' = [mu EXCEPT !.w.pc = CommitAfter("update")]
    /\ UNCHANGED <<disk, now, batch, last, faults, iter>>

\* Commit returns: the deferred Unlock, and b.writes = nil after step 5.
CommitReturn ==
    /\ InCommit("return")
    /\ batch' = IF mu.w.err = ErrNil THEN <<>> ELSE batch
    /\ last' = [op |-> "commit", writes |-> batch, err |-> mu.w.err,
                nwrites |-> mu.w.writes, nsyncs |-> mu.w.syncs]
    /\ mu' = [mu EXCEPT !.w = NoCall]
    /\ UNCHANGED <<disk, h, now, faults, iter>>

NextCommit ==
    \/ mu = Unlocked /\ DoPut("c", "a", VShort, 0)
    \/ \E w \in BatchOps : mu = Unlocked /\ DoStage(w)
    \/ CommitLock
    \/ CommitFileWrite
    \/ \E k \in 0..MaxBatch : CommitFileWriteFails(k)
    \/ CommitFileSync
    \/ CommitFileSyncFails
    \/ CommitUpdate
    \/ CommitOffset
    \/ CommitReturn

SpecCommit == Init /\ [][NextCommit]_vars

(***************************************************************************)
(* Callers of one handle and one batch, each inside at most one call, and  *)
(* the two locks.  db.mu is a sync.RWMutex: Lock takes the writers' mutex  *)
(* (wm), announces the writer and waits for the readers that are active    *)
(* (wait); RLock after the announcement blocks until the writer's Unlock,  *)
(* which makes every blocked reader active.  b.mu (bm) is a sync.Mutex.    *)
(* todo[t] has the lock and unlock calls and the body of the call t is in, *)
(* in the order it makes them; held[t] the locks it has, in the order      *)
(* taken.                                                                  *)
(***************************************************************************)
Callers == {"t1", "t2"}
NoCaller == "none"
MaxCallSegs == 1     \* frames the log may hold while callers interleave
MaxStaged == 1       \* writes staged on the batch while callers interleave

\* The file has room for n more frames.
CallRoom(n) == disk.db.kind = "log" /\ Len(disk.db.segs) + n <= MaxCallSegs

\* Batch.Commit with db.mu taken first.
CommitScriptDbFirst ==
    <<"Lock", "Drain", "BLock", "check", "write", "BUnlock", "Unlock">>

\* Batch.Commit: b.mu, the test of len(b.writes), db.mu, steps 1 to 5, and
\* the deferred unlocks.
CommitScript ==
    <<"BLock", "check", "Lock", "Drain", "write", "Unlock", "BUnlock">>

\* The calls a caller makes and their steps.  "get" is every call that
\* takes the read lock: Get (and Iterator.Value through it), List,
\* ScanPrefix, Filter, FilterPrefix, NewIterator.
CallScript(kind) ==
    CASE kind = "get" -> <<"RLock", "RWait", "read", "RUnlock">>
      [] kind \in {"put", "delete", "compact", "close"} ->
            <<"Lock", "Drain", "write", "Unlock">>
      [] kind = "stage" -> <<"BLock", "append", "BUnlock">>
      [] kind = "commit" -> CommitScript
CallKinds == {"get", "put", "delete", "compact", "close", "stage", "commit"}

\* The deferred unlocks of the locks held, last taken first.
RECURSIVE Deferred(_)
Deferred(held) ==
    IF held = <<>> THEN <<>>
    ELSE Deferred(Tail(held)) \o <<IF Head(held) = "b" THEN "BUnlock"
                                   ELSE IF Head(held) = "db" THEN "Unlock"
                                   ELSE "RUnlock">>

Idle == [t \in Callers |-> <<>>]

InitCalls ==
    /\ disk = [NoDisk EXCEPT !.db = Created.db]
    /\ h = Created.h
    /\ now = 0
    /\ batch = <<>>
    /\ last = Started
    /\ faults = 0
    /\ iter = NoIter
    /\ mu = [w |-> NoCall, r |-> 0, wm |-> NoCaller, announced |-> FALSE,
             wait |-> 0, active |-> {}, blocked |-> {}, bm |-> NoCaller,
             todo |-> Idle, held |-> Idle,
             call |-> [t \in Callers |-> "none"]]

AtStep(t, s) == mu.todo[t] # <<>> /\ Head(mu.todo[t]) = s

\* Whether the step t is at can be taken now.
CanStep(t) ==
    /\ mu.todo[t] # <<>>
    /\ CASE Head(mu.todo[t]) = "Lock"  -> mu.wm = NoCaller
         [] Head(mu.todo[t]) = "Drain" -> mu.wait = 0
         [] Head(mu.todo[t]) = "RWait" -> t \in mu.active
         [] Head(mu.todo[t]) = "BLock" -> mu.bm = NoCaller
         [] OTHER -> TRUE

\* A caller that is in no call makes one.
Invoke(t, kind) ==
    /\ mu.todo[t] = <<>>
    /\ mu' = [mu EXCEPT !.todo[t] = CallScript(kind), !.call[t] = kind]
    /\ UNCHANGED <<disk, h, now, batch, last, faults, iter>>

\* db.mu.RLock(): active at once, or blocked behind an announced writer.
StepRLock(t) ==
    /\ AtStep(t, "RLock") /\ CanStep(t)
    /\ mu' = [mu EXCEPT !.todo[t] = Tail(@), !.held[t] = Append(@, "r"),
                        !.active = IF mu.announced THEN @ ELSE @ \cup {t},
                        !.blocked = IF mu.announced THEN @ \cup {t} ELSE @]
    /\ UNCHANGED <<disk, h, now, batch, last, faults, iter>>

\* RLock returns.
StepRWait(t) ==
    /\ AtStep(t, "RWait") /\ CanStep(t)
    /\ mu' = [mu EXCEPT !.todo[t] = Tail(@)]
    /\ UNCHANGED <<disk, h, now, batch, last, faults, iter>>

\* The body of a reader: it reads the handle and the file.
StepRead(t) ==
    /\ AtStep(t, "read") /\ CanStep(t)
    /\ mu' = [mu EXCEPT !.todo[t] = Tail(@)]
    /\ UNCHANGED <<disk, h, now, batch, last, faults, iter>>

\* The deferred db.mu.RUnlock(): the last reader a writer waits for wakes it.
StepRUnlock(t) ==
    /\ AtStep(t, "RUnlock") /\ CanStep(t)
    /\ mu' = [mu EXCEPT !.todo[t] = Tail(@), !.held[t] = SelectSeq(@, LAMBDA l : l # "r"),
                        !.active = @ \ {t},
                        !.wait = IF mu.announced /\ @ > 0 THEN @ - 1 ELSE @]
    /\ UNCHANGED <<disk, h, now, batch, last, faults, iter>>

\* db.mu.Lock(), first half: the writers' mutex and the announcement.
StepLock(t) ==
    /\ AtStep(t, "Lock") /\ CanStep(t)
    /\ mu' = [mu EXCEPT !.todo[t] = Tail(@), !.held[t] = Append(@, "db"),
                        !.wm = t, !.announced = TRUE,
                        !.wait = Cardinality(mu.active)]
    /\ UNCHANGED <<disk, h, now, batch, last, faults, iter>>

\* db.mu.Lock(), second half: the active readers have left.
StepDrain(t) ==
    /\ AtStep(t, "Drain") /\ CanStep(t)
    /\ mu' = [mu EXCEPT !.todo[t] = Tail(@)]
    /\ UNCHANGED <<disk, h, now, batch, last, faults, iter>>

\* The body of a writer.  A call on a closed handle, or one the file has no
\* room for, returns an error and leaves everything as it was.
StepWrite(t) ==
    /\ AtStep(t, "write") /\ CanStep(t)
    /\ LET kind == mu.call[t]
       IN  CASE kind = "put" /\ IsOpen /\ CallRoom(1) ->
                  /\ \E nonce \in NonceSpace :
                        LET w == PutWithTTL(h, disk.db, "u", "a", VShort, 0, nonce, now)
                        IN  h' = w[1] /\ disk' = [disk EXCEPT !.db = w[2]]
                  /\ UNCHANGED batch
             [] kind = "delete" /\ IsOpen /\ CallRoom(1) ->
                  /\ LET w == Delete(h, disk.db, "u", "a", now)
                     IN  h' = w[1] /\ disk' = [disk EXCEPT !.db = w[2]]
                  /\ UNCHANGED batch
             [] kind = "compact" /\ IsOpen ->
                  /\ \E order \in Orders(DOMAIN h.index) :
                        LET ct == CompactTemp(h, disk.db, order, now)
                        IN  /\ h' = CompactHandle(h, ct)
                            /\ disk' = [db |-> ct.file, hint |-> NoFile, tmp |-> NoFile]
                  /\ UNCHANGED batch
             [] kind = "close" /\ IsOpen ->
                  /\ disk' = [disk EXCEPT !.hint = saveHint(h)]
                  /\ h' = [h EXCEPT !.fopen = FALSE]
                  /\ UNCHANGED batch
             [] kind = "commit" /\ IsOpen /\ CallRoom(Len(batch)) ->
                  /\ \E nonces \in [1..Len(batch) -> NonceSpace] :
                        LET w == Commit(h, disk.db, batch, nonces, now)
                        IN  h' = w[1] /\ disk' = [disk EXCEPT !.db = w[2]]
                  /\ batch' = <<>>
             [] OTHER -> UNCHANGED <<disk, h, batch>>
    /\ mu' = [mu EXCEPT !.todo[t] = Tail(@)]
    /\ UNCHANGED <<now, last, faults, iter>>

\* The deferred db.mu.Unlock(): the blocked readers become active, the
\* writers' mutex is released.
StepUnlock(t) ==
    /\ AtStep(t, "Unlock") /\ CanStep(t)
    /\ mu' = [mu EXCEPT !.todo[t] = Tail(@), !.held[t] = SelectSeq(@, LAMBDA l : l # "db"),
                        !.wm = NoCaller, !.announced = FALSE, !.wait = 0,
                        !.active = @ \cup mu.blocked, !.blocked = {}]
    /\ UNCHANGED <<disk, h, now, batch, last, faults, iter>>

\* b.mu.Lock().
StepBLock(t) ==
    /\ AtStep(t, "BLock") /\ CanStep(t)
    /\ mu' = [mu EXCEPT !.todo[t] = Tail(@), !.held[t] = Append(@, "b"), !.bm = t]
    /\ UNCHANGED <<disk, h, now, batch, last, faults, iter>>

\* The body of batch.Put: b.writes = append(b.writes, ...).
StepAppend(t) ==
    /\ AtStep(t, "append") /\ CanStep(t)
    /\ batch' = IF Len(batch) < MaxStaged
                THEN Append(batch, BatchPutOp("u", "a", VShort, 0)) ELSE batch
    /\ mu' = [mu EXCEPT !.todo[t] = Tail(@)]
    /\ UNCHANGED <<disk, h, now, last, faults, iter>>

\* Commit's test of len(b.writes): on an empty batch it returns nil, and
\* the deferred unlocks of the locks taken so far run.
StepCheck(t) ==
    /\ AtStep(t, "check") /\ CanStep(t)
    /\ mu' = [mu EXCEPT !.todo[t] = IF batch = <<>> THEN Deferred(mu.held[t])
                                    ELSE Tail(@)]
    /\ UNCHANGED <<disk, h, now, batch, last, faults, iter>>

\* The deferred b.mu.Unlock().
StepBUnlock(t) ==
    /\ AtStep(t, "BUnlock") /\ CanStep(t)
    /\ mu' = [mu EXCEPT !.todo[t] = Tail(@), !.held[t] = SelectSeq(@, LAMBDA l : l # "b"),
                        !.bm = NoCaller]
    /\ UNCHANGED <<disk, h, now, batch, last, faults, iter>>

\* The steps of caller t inside a call.
CallStep(t) ==
    \/ StepRLock(t) \/ StepRWait(t) \/ StepRead(t) \/ StepRUnlock(t)
    \/ StepLock(t) \/ StepDrain(t) \/ StepWrite(t) \/ StepUnlock(t)
    \/ StepBLock(t) \/ StepAppend(t) \/ StepCheck(t) \/ StepBUnlock(t)

NextCalls ==
    \/ \E t \in Callers, kind \in CallKinds : Invoke(t, kind)
    \/ \E t \in Callers : StepRLock(t)
    \/ \E t \in Callers : StepRWait(t)
    \/ \E t \in Callers : StepRead(t)
    \/ \E t \in Callers : StepRUnlock(t)
    \/ \E t \in Callers : StepLock(t)
    \/ \E t \in Callers : StepDrain(t)
    \/ \E t \in Callers : StepWrite(t)
    \/ \E t \in Callers : StepUnlock(t)
    \/ \E t \in Callers : StepBLock(t)
    \/ \E t \in Callers : StepAppend(t)
    \/ \E t \in Callers : StepCheck(t)
    \/ \E t \in Callers : StepBUnlock(t)

\* The scheduler runs every caller that can take a step, and a sync.Mutex
\* hands the lock to a waiter that has waited long enough (starvation mode):
\* a caller that can take its next step again and again does take it.  Every
\* step but Lock and b.mu.Lock, once it can be taken, can be taken until it
\* is.
FairCalls == \A t \in Callers : SF_vars(CallStep(t))

SpecCalls == InitCalls /\ [][NextCalls]_vars /\ FairCalls

(***************************************************************************)
(* Read calls on logs that hold an expired record, a frame damaged while   *)
(* the log was closed, or two exchanged frames.                            *)
(***************************************************************************)
\* The loop of FilterPrefix from segment i on: that of ScanPrefix, with the
\* predicate applied to the composite key and the value, and a map of
\* values.
RECURSIVE FilterPrefixLoop(_, _, _, _, _, _, _, _)
FilterPrefixLoop(hd, f, limit, i, prefix, fn, t, results) ==
    IF i > Len(f.segs) \/ SegStart(f.segs, i) >= limit THEN {ScanOk(results)}
    ELSE UNION {
        IF rd.err = ErrEOF THEN {ScanOk(results)}
        ELSE IF rd.err # ErrNil THEN {ScanErr(rd.err)}
        ELSE LET fullKey == compositeKey(rd.rec.coll, rd.rec.key)
             IN  IF ~HasPrefix(fullKey, prefix)
                 THEN FilterPrefixLoop(hd, f, limit, i + 1, prefix, fn, t, results)
                 ELSE IF rd.rec.op = OpDelete \/ Expired(rd.rec, t)
                 THEN FilterPrefixLoop(hd, f, limit, i + 1, prefix, fn, t,
                                       IndexDel(results, fullKey))
                 ELSE LET v == ScanValue(hd, rd.rec)
                      IN  IF v.err # ErrNil THEN {ScanErr(v.err)}
                          ELSE IF Holds(fn, fullKey, v.v)
                          THEN FilterPrefixLoop(hd, f, limit, i + 1, prefix, fn, t,
                                                IndexPut(results, fullKey, v.v))
                          ELSE FilterPrefixLoop(hd, f, limit, i + 1, prefix, fn, t,
                                                IndexDel(results, fullKey))
        : rd \in streamRecord(f, limit, i)}

FilterPrefix(hd, f, prefix, fn, t) ==
    FilterPrefixLoop(hd, f, hd.offset, 1, prefix, fn, t, NoResults)

\* A read that drops from the index the key it found expired or missing.
AfterReadDropKey(hd, compKey, err) ==
    IF err = ErrNotFound THEN [hd EXCEPT !.index = IndexDel(@, compKey)] ELSE hd

\* The handle after a read call that looked for compKey and returned err:
\* Get, List, ScanPrefix, Filter, FilterPrefix, NewIterator and the methods
\* of Iterator assign no field of db.
AfterRead(hd, compKey, err) == hd

ReadPuts == {<<"u", "a", VShort, 0>>, <<"u", "b", VShort, 1>>}
ReadPairs == {<<"u", "a">>, <<"u", "b">>}
ReadPreds == {"all", "keyA"}

\* db.Get(collection, key).
DoGet(collection, key) ==
    /\ IsOpen
    /\ \E res \in Get(h, disk.db, collection, key, now) :
          /\ h' = AfterRead(h, compositeKey(collection, key), res.err)
          /\ last' = [op |-> "get", ck |-> compositeKey(collection, key),
                      err |-> res.err, ret |-> res.v]
    /\ UNCHANGED <<disk, now, batch, faults, iter, mu>>

\* db.List(collection).
DoList(collection) ==
    /\ IsOpen
    /\ h' = AfterRead(h, "", ErrNil)
    /\ last' = [op |-> "list", ck |-> "", err |-> ErrNil, ret |-> List(h, collection)]
    /\ UNCHANGED <<disk, now, batch, faults, iter, mu>>

\* db.ScanPrefix(prefix).
DoScanPrefix(prefix) ==
    /\ IsOpen
    /\ \E res \in ScanPrefix(h, disk.db, prefix, now) :
          /\ h' = AfterRead(h, "", res.err)
          /\ last' = [op |-> "scan", ck |-> "", err |-> res.err, ret |-> res.results]
    /\ UNCHANGED <<disk, now, batch, faults, iter, mu>>

\* db.Filter(collection, fn).
DoFilter(collection, fn) ==
    /\ IsOpen
    /\ \E res \in Filter(h, disk.db, collection, fn, now) :
          /\ h' = AfterRead(h, "", res.err)
          /\ last' = [op |-> "filter", ck |-> "", err |-> res.err, ret |-> res.results]
    /\ UNCHANGED <<disk, now, batch, faults, iter, mu>>

\* db.FilterPrefix(prefix, fn).
DoFilterPrefix(prefix, fn) ==
    /\ IsOpen
    /\ \E res \in FilterPrefix(h, disk.db, prefix, fn, now) :
          /\ h' = AfterRead(h, "", res.err)
          /\ last' = [op |-> "filterprefix", ck |-> "", err |-> res.err,
                      ret |-> res.results]
    /\ UNCHANGED <<disk, now, batch, faults, iter, mu>>

\* db.NewIterator(prefix), any iterator made before being dropped.
DoReadIterator(prefix) ==
    /\ IsOpen
    /\ iter' = NewIterator(h, prefix)
    /\ h' = AfterRead(h, "", ErrNil)
    /\ last' = [op |-> "iterator", ck |-> "", err |-> ErrNil, ret |-> prefix]
    /\ UNCHANGED <<disk, now, batch, faults, mu>>

\* it.Next() up to the call that returns false.
DoReadNext ==
    /\ IsOpen
    /\ iter # NoIter /\ iter.st = "open"
    /\ iter.idx < Len(iter.keys)
    /\ iter' = IterNext(iter)
    /\ h' = AfterRead(h, "", ErrNil)
    /\ last' = [op |-> "next", ck |-> "", err |-> ErrNil, ret |-> IterNext(iter).valid]
    /\ UNCHANGED <<disk, now, batch, faults, mu>>

\* it.Key() on a valid iterator.
DoIterKey ==
    /\ IsOpen
    /\ iter # NoIter /\ iter.st = "open" /\ iter.valid
    /\ h' = AfterRead(h, "", ErrNil)
    /\ last' = [op |-> "key", ck |-> "", err |-> ErrNil, ret |-> IterKey(iter)]
    /\ UNCHANGED <<disk, now, batch, faults, iter, mu>>

\* it.Value() on a valid iterator.
DoIterValue ==
    /\ IsOpen
    /\ iter # NoIter /\ iter.st = "open" /\ iter.valid
    /\ \E res \in IterValue(iter, h, disk.db, now) :
          /\ h' = AfterRead(h, IterKey(iter), res.err)
          /\ last' = [op |-> "value", ck |-> IterKey(iter), err |-> res.err,
                      ret |-> res.v]
    /\ UNCHANGED <<disk, now, batch, faults, iter, mu>>

NextRead ==
    \/ \E i \in ReadPuts : DoPut(i[1], i[2], i[3], i[4]) /\ iter = NoIter
    \/ Tick
    \/ DoClose /\ iter = NoIter
    \/ DoOpen("pw1")
    \/ \E i \in 1..MaxSegs : CorruptFrame(i, "payload")
    \/ \E i \in 1..MaxSegs, j \in 1..MaxSegs : SwapFrames(i, j)
    \/ \E p \in ReadPairs : DoGet(p[1], p[2])
    \/ DoList("u")
    \/ DoScanPrefix("u:")
    \/ \E fn \in ReadPreds : DoFilter("u", fn)
    \/ \E fn \in ReadPreds : DoFilterPrefix("u:", fn)
    \/ DoReadIterator("u:")
    \/ DoReadNext
    \/ DoIterKey
    \/ DoIterValue

SpecRead == Init /\ [][NextRead]_vars

(***************************************************************************)
(* Properties.                                                             *)
(***************************************************************************)
LastSeg == disk.db.segs[Len(disk.db.segs)]
NotFound == {GetErr(ErrNotFound)}
\* The password the header of the log was sealed with.
CreatedWith(f) == f.hdr.encDek.k.pw

\* C1: after a put that returned success, and before any other write to the
\* key, get returns exactly the value put, for a short value and for one
\* longer than 128 bytes that was stored compressed.
C1_PutThenGet ==
    (last.op = "put" /\ last.err = ErrNil /\ last.ttl = 0) =>
        Get(h, disk.db, last.c, last.k, now) = {GetOk(last.v)}

C1_Witness ==
    /\ last.op = "put" /\ last.err = ErrNil /\ last.ttl = 0
    /\ last.v = VLong
    /\ Len(disk.db.segs) = MaxSegs
    /\ LastSeg.f.flags = FlagCompressed
    /\ Get(h, disk.db, last.c, last.k, now) = {GetOk(VLong)}

\* The last frame of the log written for a key, 0 if there is none.
LatestOf(f, collection, key) ==
    LET S == {i \in 1..Len(f.segs) :
                 f.segs[i].f.coll = collection /\ f.segs[i].f.key = key}
    IN  IF S = {} THEN 0 ELSE CHOOSE i \in S : \A j \in S : j <= i

\* C2: once a key that was put has been deleted, get returns not found for
\* it: right after the delete, whose tombstone is the last frame of the log,
\* and in every later state of an open handle, after a close and reopen
\* too, for as long as the log has no put of the key after the tombstone.
C2_DeleteThenNotFound ==
    IsOpen =>
        /\ (last.op = "delete" /\ last.was) =>
               /\ LastSeg.f.op = OpDelete
               /\ LastSeg.f.coll = last.c /\ LastSeg.f.key = last.k
               /\ Get(h, disk.db, last.c, last.k, now) = NotFound
        /\ \A p \in Pairs :
               LET i == LatestOf(disk.db, p[1], p[2])
               IN  (i = 0 \/ disk.db.segs[i].f.op = OpDelete) =>
                       Get(h, disk.db, p[1], p[2], now) = NotFound

C2_Witness ==
    /\ last.op = "open" /\ last.err = ErrNil
    /\ last.prev # NoHandle
    /\ "u:a" \notin DOMAIN h.index
    /\ BloomContains(h.bloom, "u:a")
    /\ \E i \in 1..Len(disk.db.segs) :
          disk.db.segs[i].f.op = OpDelete /\ disk.db.segs[i].f.key = "a"
    /\ Get(h, disk.db, "u", "a", now) = NotFound

\* C3: after successive puts of one key the index has the key once, the
\* entry is the offset of the frame of the last put, which is the last
\* frame of the log, and get returns the value of that put.
C3_LastPutWins ==
    (last.op = "put" /\ last.err = ErrNil) =>
        LET ck == compositeKey(last.c, last.k)
            n == Len(disk.db.segs)
        IN  /\ ck \in DOMAIN h.index
            /\ Cardinality({k \in DOMAIN h.index : k = ck}) = 1
            /\ h.index[ck] = SegStart(disk.db.segs, n)
            /\ readRecord(disk.db, h.index[ck]) = {ReadOk(LastSeg.f)}
            /\ LastSeg.f.coll = last.c /\ LastSeg.f.key = last.k
            /\ LastSeg.f.op = OpPut
            /\ AeadOpen(h.dek, LastSeg.f.nonce, LastSeg.f.val,
                        Aad(ck, LastSeg.f.ts)).p = FinalValue(last.v).v

C3_Witness ==
    /\ last.op = "put" /\ last.err = ErrNil
    /\ Len(disk.db.segs) = 2
    /\ disk.db.segs[1].f.op = OpPut /\ disk.db.segs[2].f.op = OpPut
    /\ disk.db.segs[1].f.coll = "u" /\ disk.db.segs[2].f.coll = "u"
    /\ disk.db.segs[1].f.key = "a" /\ disk.db.segs[2].f.key = "a"
    /\ disk.db.segs[1].f.flags # disk.db.segs[2].f.flags
    /\ h.index["u:a"] = SegStart(disk.db.segs, 2)
    /\ Get(h, disk.db, "u", "a", now) = {GetOk(last.v)}

\* C4: after a close and an open with the password of the log, the open
\* succeeds, get returns for every key what the closed handle returned, list
\* returns the same keys for every collection, and the append offset is the
\* end of the log, so that the next put is indexed where it is written.
C4_ReopenSameState ==
    (last.op = "open" /\ last.prev # NoHandle /\ last.pw = CreatedWith(disk.db)) =>
        /\ last.err = ErrNil
        /\ IsOpen
        /\ \A p \in Pairs :
              Get(h, disk.db, p[1], p[2], now) = Get(last.prev, disk.db, p[1], p[2], now)
        /\ \A c \in Collections : List(h, c) = List(last.prev, c)
        /\ h.offset = FileSize(disk.db)
        /\ \A i \in PutInputs :
              LET w == PutWithTTL(h, disk.db, i[1], i[2], i[3], i[4], 1, now)
              IN  Get(w[1], w[2], i[1], i[2], now) = {GetOk(i[3])}

C4_Witness ==
    /\ last.op = "open" /\ last.err = ErrNil /\ last.prev # NoHandle
    /\ Len(disk.db.segs) = MaxSegs
    /\ Get(h, disk.db, "u", "a", now) = {GetOk(VLong)}
    /\ Get(h, disk.db, "c", "a", now) = {GetOk(VShort)}
    /\ List(h, "u") = {"a"} /\ List(h, "c") = {"a"}
    /\ h.offset = FileSize(disk.db)

\* C5: an open of an existing log with a password other than the one it was
\* created with returns invalid password and no handle, and leaves the log
\* and the hint file as they were.
C5_WrongPassword ==
    [][\A pw \in Passwords :
          (DoOpen(pw) /\ disk.db.kind = "log" /\ pw # CreatedWith(disk.db)) =>
              /\ last'.err = ErrInvalidPassword
              /\ h' = NoHandle
              /\ disk'.db = disk.db
              /\ disk'.hint = disk.hint]_vars

C5_Witness ==
    /\ last.op = "open" /\ last.err = ErrInvalidPassword
    /\ last.pw # CreatedWith(disk.db)
    /\ h = NoHandle
    /\ disk.hint.kind = "hint"
    /\ Len(disk.db.segs) >= 1

\* C6: a compaction that succeeds changes no result of get: a live key keeps
\* its latest value, a deleted, expired or never written key stays not
\* found; and if the log held a superseded or deleted record, it is strictly
\* smaller afterwards.
C6_CompactKeepsGet ==
    [][(last'.op = "compact" /\ now' = now /\ DoCompact) =>
          LET after == Gets(h', disk'.db, now)
          IN  /\ after = Gets(h, disk.db, now)
              /\ \A p \in Pairs :
                    after[p] \in {NotFound, {GetOk(VShort)}, {GetOk(VLong)}}
              /\ last'.dead => FileSize(disk'.db) < FileSize(disk.db)
              /\ DeadFrames(h', disk'.db) = {}]_vars

C6_Witness ==
    /\ last.op = "compact" /\ last.err = ErrNil
    /\ last.dead
    /\ Len(disk.db.segs) = 1
    /\ h.index = [k \in {"u:a"} |-> v4HeaderSize]
    /\ Get(h, disk.db, "u", "a", now) = {GetOk(VLong)}
    /\ Get(h, disk.db, "c", "a", now) = NotFound

\* A complete frame with a valid CRC starts at offset, a put of compKey.
PutFrameAt(f, offset, compKey) ==
    \E i \in 1..Len(f.segs) :
        /\ SegStart(f.segs, i) = offset
        /\ IsWhole(f.segs[i])
        /\ f.segs[i].f.crc = Checksum(f.segs[i].f)
        /\ f.segs[i].f.op = OpPut
        /\ compositeKey(f.segs[i].f.coll, f.segs[i].f.key) = compKey

\* C7: with no call in progress, every index entry of an open handle is the
\* offset at which a complete frame starts whose CRC validates and which is
\* a put of the entry's collection and key; also after a reopen that
\* recovered from a truncated last frame and the calls that follow it.
C7_IndexPointsToPut ==
    IsOpen => \A ck \in DOMAIN h.index : PutFrameAt(disk.db, h.index[ck], ck)

\* The last frame of the log is incomplete, or complete with a CRC that does
\* not validate, and every frame before it is complete and valid.
GoodSeg(seg) == IsWhole(seg) /\ seg.f.crc = Checksum(seg.f)
BadTail(f) ==
    /\ f.kind = "log"
    /\ Len(f.segs) > 0
    /\ ~GoodSeg(f.segs[Len(f.segs)])
    /\ \A i \in 1..(Len(f.segs) - 1) : GoodSeg(f.segs[i])

\* The index of the first n frames of the log.
RECURSIVE IndexOf(_, _)
IndexOf(segs, n) ==
    IF n = 0 THEN EmptyIndex
    ELSE LET fr == segs[n].f
             ck == compositeKey(fr.coll, fr.key)
         IN  IF fr.op = OpPut
             THEN IndexPut(IndexOf(segs, n - 1), ck, SegStart(segs, n))
             ELSE IndexDel(IndexOf(segs, n - 1), ck)

\* C8: an open of a log whose last frame is incomplete or fails its CRC
\* succeeds, with the index of the complete frames before that frame and the
\* append offset at the start of that frame.
C8_OpenStopsAtBadTail ==
    (last.op = "open" /\ BadTail(disk.db) /\ last.pw = CreatedWith(disk.db)) =>
        /\ last.err = ErrNil
        /\ IsOpen
        /\ h.index = IndexOf(disk.db.segs, Len(disk.db.segs) - 1)
        /\ h.offset = SegStart(disk.db.segs, Len(disk.db.segs))

\* The part of C8 that is about an incomplete last frame only.
C8_ShortReadOnly ==
    (last.op = "open" /\ BadTail(disk.db) /\ last.pw = CreatedWith(disk.db)
       /\ ~IsWhole(LastSeg)) =>
        /\ last.err = ErrNil
        /\ IsOpen
        /\ h.index = IndexOf(disk.db.segs, Len(disk.db.segs) - 1)
        /\ h.offset = SegStart(disk.db.segs, Len(disk.db.segs))

\* C9: whatever the step at which the process dies in Compact, the path of
\* the log then holds the complete old log or the complete compacted log,
\* and an open with the password of the log succeeds and get returns, for
\* every key that was live before, the value it had.
C9_CompactCrashSafe ==
    [][\A step \in CompactSteps :
          CrashInCompact(step) =>
              /\ \/ disk'.db = disk.db
                 \/ \E order \in Orders(DOMAIN h.index) :
                       disk'.db = CompactTemp(h, disk.db, order, now).file
              /\ \A r \in Open(disk'.db, disk'.hint, CreatedWith(disk.db), "s1", 1, "dek1") :
                    /\ r.err = ErrNil
                    /\ \A p \in Pairs :
                          Get(h, disk.db, p[1], p[2], now) # NotFound =>
                              Get(r.h, r.db, p[1], p[2], now) =
                                  Get(h, disk.db, p[1], p[2], now)]_vars

\* C10: with no call in progress on an open handle the append offset is the
\* size of the log, after a call that succeeded and after one that returned
\* an error; right after an open it is at most the size of the log.
C10_OffsetIsFileSize ==
    IsOpen =>
        \/ h.offset = FileSize(disk.db)
        \/ (last.op = "open" /\ faults > 0 /\ h.offset <= FileSize(disk.db))

\* C11: in every state of an open handle the bloom filter answers present
\* for every composite key of the index: after a put, a delete, a batch
\* commit, a compaction, and after an open that loaded the hint file or
\* found none and scanned the log from the header.
C11_BloomCoversIndex ==
    IsOpen => \A ck \in DOMAIN h.index : BloomContains(h.bloom, ck)

C11_Witness ==
    /\ last.op = "open" /\ last.err = ErrNil
    /\ faults > 0
    /\ disk.hint = NoFile
    /\ DOMAIN h.index = {"u:a", "c:a"}
    /\ BloomContains(h.bloom, "u:a") /\ BloomContains(h.bloom, "c:a")
    /\ ~BloomContains(h.bloom, "u:b")

\* The times at which a reader may ask.
Times == 0..(MaxTime + 1)

\* The last staged write of a batch for a key, 0 if it has none.
LastWrite(writes, collection, key) ==
    LET S == {i \in 1..Len(writes) :
                 writes[i].collection = collection /\ writes[i].key = key}
    IN  IF S = {} THEN 0 ELSE CHOOSE i \in S : \A j \in S : j <= i

\* What get returns at time t for a key whose last write, made at time at,
\* was w.
Reflected(w, at, t) ==
    IF w.op = OpDelete THEN NotFound
    ELSE IF w.ttl > 0 /\ t > at + w.ttl THEN NotFound
    ELSE {GetOk(w.value)}

\* C12: a batch.Put or batch.Delete changes nothing of the database: index,
\* bloom filter, offset, log file and the result of every get are as before
\* the call; and once Commit has returned nil, get returns for every key of
\* the batch what its last staged write says.
C12_StagedUntilCommit ==
    /\ [][(Len(batch') > Len(batch)) =>
             /\ h' = h
             /\ disk' = disk
             /\ Gets(h', disk'.db, now') = Gets(h, disk.db, now)]_vars
    /\ []((last.op = "commit" /\ last.err = ErrNil) =>
             \A p \in Pairs :
                LET i == LastWrite(last.writes, p[1], p[2])
                IN  i > 0 =>
                       \A t \in Times :
                          t >= last.t =>
                             Get(h, disk.db, p[1], p[2], t) =
                                 Reflected(last.writes[i], last.t, t))

C12_Witness ==
    /\ last.op = "commit" /\ last.err = ErrNil
    /\ last.writes = <<BatchPutOp("u", "b", VLong, 1), BatchDeleteOp("u", "a")>>
    /\ Len(disk.db.segs) = 3
    /\ disk.db.segs[1].f.key = "a" /\ disk.db.segs[1].f.op = OpPut
    /\ Get(h, disk.db, "u", "a", now) = NotFound
    /\ Get(h, disk.db, "u", "b", last.t + 1) = {GetOk(VLong)}
    /\ Get(h, disk.db, "u", "b", last.t + 2) = NotFound

\* The calls PutWithTTL and Delete made one by one for writes[i..], all at
\* time t: <<handle, file>>.
RECURSIVE OneByOne(_, _, _, _, _)
OneByOne(hd, f, writes, i, t) ==
    IF i > Len(writes) THEN <<hd, f>>
    ELSE LET w == writes[i]
             r == IF w.op = OpPut
                  THEN PutWithTTL(hd, f, w.collection, w.key, w.value, w.ttl, 1, t)
                  ELSE Delete(hd, f, w.collection, w.key, t)
         IN  OneByOne(r[1], r[2], writes, i + 1, t)

C13_WitnessDeleteThenPut ==
    /\ last.op = "commit" /\ last.err = ErrNil
    /\ last.writes = <<BatchDeleteOp("u", "a"), BatchPutOp("u", "a", VShort, 0)>>
    /\ Get(h, disk.db, "u", "a", now) = {GetOk(VShort)}

\* C14: when the process dies in Commit and the log is opened again, the
\* rebuilt index is the index before the commit or the index with every
\* staged write applied, whatever part of the batch buffer reached the file.
C14_CommitCrashAtomic ==
    [][(last'.op = "crash" /\ batch # <<>> /\ disk'.db # disk.db
          /\ \E k \in 1..MaxSegs : CrashInCommit(k)) =>
          \A r \in Open(disk'.db, disk'.hint, CreatedWith(disk.db), "s1", 1, "dek1") :
             /\ r.err = ErrNil
             /\ \/ r.h.index = h.index
                \/ \E nonces \in [1..Len(batch) -> NonceSpace] :
                      r.h.index = Commit(h, disk.db, batch, nonces, now)[1].index]_vars

\* C15: a Commit that returns an error, from the nonce generation, the
\* write or the sync, leaves index, bloom filter and append offset as they
\* were before the call, and get returns for every key what it returned
\* before: no staged write shows.
C15_FailedCommitNoEffect ==
    [][(last'.op = "commit" /\ last'.err # ErrNil /\ faults' = faults + 1) =>
          /\ h'.index = h.index
          /\ h'.bloom = h.bloom
          /\ h'.offset = h.offset
          /\ \A p \in Pairs : \A t \in Times :
                Get(h', disk'.db, p[1], p[2], t) = Get(h, disk.db, p[1], p[2], t)]_vars

C15_Witness ==
    /\ last.op = "commit" /\ last.err = ErrIO
    /\ last.writes = <<BatchDeleteOp("u", "a"), BatchPutOp("u", "b", VLong, 1)>>
    /\ Len(disk.db.segs) = 3
    /\ IsWhole(disk.db.segs[2]) /\ IsWhole(disk.db.segs[3])
    /\ batch = last.writes
    /\ h.offset = SegStart(disk.db.segs, 2)
    /\ Get(h, disk.db, "u", "a", now) = {GetOk(VShort)}
    /\ Get(h, disk.db, "u", "b", now) = NotFound

\* The values a caller puts.
Values == {i[3] : i \in PutInputs}

\* C16: while the last record of a key in the log is a put made at time t
\* with ttl > 0, whose ExpiresAt is t + ttl, get returns the value put at
\* every time up to t + ttl and not found at every time after it, on the
\* handle that made the put, after a close and reopen and after a
\* compaction; a put with ttl <= 0 has ExpiresAt 0 and get returns its value
\* at every time.
C16_TTL ==
    /\ \A t \in Times : \A ttl \in {-1, 0} :
          /\ ExpiresAt(t, ttl) = 0
          /\ \A t2 \in Times : ~Expired([exp |-> ExpiresAt(t, ttl)], t2)
    /\ IsOpen =>
          \A p \in Pairs :
             LET i == LatestOf(disk.db, p[1], p[2])
                 fr == disk.db.segs[i].f
             IN  (i > 0 /\ fr.op = OpPut) =>
                    /\ fr.exp > 0 =>
                          /\ \E ttl \in 1..MaxTime : fr.exp = fr.ts + ttl
                          /\ \A t \in Times :
                                (t >= now /\ t > fr.exp) =>
                                   Get(h, disk.db, p[1], p[2], t) = NotFound
                    /\ \A t \in Times :
                          (t >= now /\ (fr.exp = 0 \/ t <= fr.exp)) =>
                             \E v \in Values :
                                /\ Get(h, disk.db, p[1], p[2], t) = {GetOk(v)}
                                /\ fr.val.p = FinalValue(v).v

C16_Witness ==
    /\ last.op = "open" /\ last.err = ErrNil /\ last.prev # NoHandle
    /\ now = 2
    /\ LatestOf(disk.db, "c", "a") > 0
    /\ disk.db.segs[LatestOf(disk.db, "c", "a")].f.exp = 1
    /\ "c:a" \in DOMAIN h.index
    /\ Get(h, disk.db, "c", "a", 1) = {GetOk(VShort)}
    /\ Get(h, disk.db, "c", "a", now) = NotFound

\* The keys of a sequence.
Elems(seq) == {seq[i] : i \in 1..Len(seq)}

\* C17: NewIterator(prefix) holds exactly the keys of the index at that
\* moment that start with prefix, each once, in strictly ascending order;
\* and while the iterator is open, with n keys the calls of Next up to the
\* n-th return true and every later call returns false.
C17_IteratorSorted ==
    /\ (last.op = "iterator") =>
          /\ Elems(iter.keys) = {k \in DOMAIN last.index : HasPrefix(k, last.prefix)}
          /\ Len(iter.keys) = Cardinality(Elems(iter.keys))
          /\ \A i \in 1..(Len(iter.keys) - 1) : StrLess(iter.keys[i], iter.keys[i + 1])
          /\ iter.idx = -1
    /\ (last.op = "next" /\ iter.st = "open") =>
          /\ last.ret = (iter.idx + 1 <= Len(iter.keys))
          /\ last.ret => IterKey(iter) = iter.keys[iter.idx + 1]

C17_Witness ==
    /\ last.op = "next" /\ ~last.ret
    /\ iter.st = "open"
    /\ iter.prefix = ""
    /\ iter.keys = <<"c:a", "u:a", "u:b">>
    /\ iter.idx = 4
    /\ disk.db.segs[1].f.key = "b"
    /\ disk.db.segs[3].f.coll = "c"

\* C18: the keys of an open iterator are those it was made with, whatever
\* put, delete, batch commit or compaction runs afterwards, and Key yields
\* them; Value reads the database as it is now: not found for a key whose
\* last record is a tombstone or that has no record left, the value of the
\* last put otherwise.
C18_IteratorSnapshot ==
    /\ [][(iter.st = "open" /\ iter'.st = "open") => iter'.keys = iter.keys]_vars
    /\ []((iter.st = "open" /\ iter.valid) =>
             LET key == IterKey(iter)
                 sk == SplitKey(key)
                 i == LatestOf(disk.db, sk[1], sk[2])
                 fr == disk.db.segs[i].f
                 val == IterValue(iter, h, disk.db, now)
             IN  /\ key = iter.keys[iter.idx + 1]
                 /\ compositeKey(sk[1], sk[2]) = key
                 /\ IF i = 0 \/ fr.op = OpDelete THEN val = NotFound
                    ELSE \E v \in Values : val = {GetOk(v)} /\ fr.val.p = FinalValue(v).v)

C18_Witness ==
    /\ last.op = "commit"
    /\ iter.st = "open" /\ iter.valid
    /\ iter.keys = <<"c:a", "u:a">>
    /\ IterKey(iter) = "u:a"
    /\ DOMAIN h.index = {"c:a", "u:b"}
    /\ IterValue(iter, h, disk.db, now) = NotFound

\* The key under the iterator has been overwritten since Next returned it.
C18_WitnessOverwritten ==
    /\ last.op = "put" /\ last.k = "a" /\ last.c = "u" /\ last.v = VLong
    /\ iter.st = "open" /\ iter.valid
    /\ IterKey(iter) = "u:a"
    /\ disk.db.segs[1].f.flags = FlagNone
    /\ IterValue(iter, h, disk.db, now) = {GetOk(VLong)}

\* Handle and log agree: the append offset is the size of the log, the index
\* is the index of the frames of the log and the bloom filter covers it.
Complete(hd, d) ==
    IF hd = NoHandle THEN d.hint.kind = "hint"
    ELSE /\ d.db.kind = "log"
         /\ hd.offset = FileSize(d.db)
         /\ hd.index = IndexOf(d.db.segs, Len(d.db.segs))
         /\ \A ck \in DOMAIN hd.index : BloomContains(hd.bloom, ck)

\* C19: whenever a reader holds the read lock no writer is between its Lock
\* and its Unlock, and what the reader finds is a complete state: there is
\* no frame in the log that index and offset do not account for, and no
\* index entry or offset ahead of the log.
C19_ReadersSeeCompleteState ==
    mu.r > 0 =>
        /\ mu.w = NoCall
        /\ Complete(h, disk)

C19_Witness ==
    /\ mu.r = MaxReaders
    /\ last.op = "compact"
    /\ Len(disk.db.segs) = 1
    /\ DOMAIN h.index = {"c:a"}
    /\ Get(h, disk.db, "c", "a", now) = {GetOk(VLong)}

\* A writer between two of its steps: the log has a frame the index does
\* not have yet.
C19_Intermediate ==
    /\ mu.w # NoCall /\ mu.w.op = "put"
    /\ Len(mu.w.todo) = 3
    /\ ~Complete(h, disk)
    /\ mu.r = 0

\* The damaged frames of the log.
Damaged(f) == {i \in 1..Len(f.segs) : ~GoodSeg(f.segs[i])}

\* The hint file loads and its offset is where a frame of the log starts or
\* the log ends.
HintFits(d) ==
    /\ loadHint(d.hint).ok
    /\ \E i \in 1..(Len(d.db.segs) + 1) : SegStart(d.db.segs, i) = loadHint(d.hint).offset

\* C20: an open that loads the hint file reads no frame before the offset
\* stored in it: with the password of the log it succeeds when the damaged
\* frame lies before that offset, and fails when the damaged frame starts at
\* or after it.
C20_HintSkipsCoveredFrames ==
    (/\ last.op = "open" /\ last.pw = CreatedWith(disk.db)
     /\ HintFits(disk)
     /\ Damaged(disk.db) # {}) =>
        LET off == loadHint(disk.hint).offset
        IN  /\ (\A i \in Damaged(disk.db) : SegStart(disk.db.segs, i + 1) <= off) =>
                   (last.err = ErrNil /\ IsOpen)
            /\ (\E i \in Damaged(disk.db) : SegStart(disk.db.segs, i) >= off) =>
                   (last.err # ErrNil /\ h = NoHandle)

\* The part of C20 about a damaged frame before the offset of the hint.
C20_BeforeHintNotRead ==
    (/\ last.op = "open" /\ last.pw = CreatedWith(disk.db)
     /\ HintFits(disk)
     /\ Damaged(disk.db) # {}
     /\ \A i \in Damaged(disk.db) :
           SegStart(disk.db.segs, i + 1) <= loadHint(disk.hint).offset) =>
        (last.err = ErrNil /\ IsOpen)

\* The part of C20 about a frame at or after the offset of the hint whose
\* payload is damaged and whose lengths are not.
C20_PayloadAfterHintFails ==
    (/\ last.op = "open" /\ last.pw = CreatedWith(disk.db)
     /\ HintFits(disk)
     /\ \E i \in Damaged(disk.db) :
           /\ SegStart(disk.db.segs, i) >= loadHint(disk.hint).offset
           /\ IsWhole(disk.db.segs[i])) =>
        (last.err = ErrChecksumMismatch /\ h = NoHandle)

\* An open that succeeded on a log with a damaged frame before the offset of
\* the hint.
C20_OpenedOverDamage ==
    /\ last.op = "open" /\ last.err = ErrNil
    /\ HintFits(disk)
    /\ Damaged(disk.db) = {1}
    /\ loadHint(disk.hint).offset = SegStart(disk.db.segs, 2)

\* The keys of the index whose record, the frame at the indexed offset, has
\* not expired at time t.
Unexpired(hd, f, t) ==
    {k \in DOMAIN hd.index :
        \E i \in 1..Len(f.segs) :
            /\ SegStart(f.segs, i) = hd.index[k]
            /\ ~(f.segs[i].f.exp > 0 /\ f.segs[i].f.exp < t)}

\* C21: after a Compact that returned nil the log is the header followed by
\* exactly one frame for each key of the index before the call whose record
\* had not expired, that frame being the record as it was; no superseded
\* put, tombstone or expired record is left; the new index maps each of
\* these keys to the start of its frame and the append offset is the size of
\* the new file.
C21_CompactLeavesLiveOnly ==
    [][(last'.op = "compact" /\ now' = now /\ DoCompact) =>
          LET keep == Unexpired(h, disk.db, now)
              old == disk.db.segs
              new == disk'.db.segs
          IN  /\ disk'.db.kind = "log"
              /\ Len(new) = Cardinality(keep)
              /\ DOMAIN h'.index = keep
              /\ \A k \in keep :
                    \E i \in 1..Len(new), j \in 1..Len(old) :
                        /\ h'.index[k] = SegStart(new, i)
                        /\ h.index[k] = SegStart(old, j)
                        /\ new[i] = old[j]
                        /\ compositeKey(new[i].f.coll, new[i].f.key) = k
                        /\ new[i].f.op = OpPut
              /\ \A i \in 1..Len(new) :
                    \E k \in keep : h'.index[k] = SegStart(new, i)
              /\ h'.offset = FileSize(disk'.db)
              /\ FileSize(disk'.db) = v4HeaderSize + SegBytes(new, Len(new))]_vars

\* A compaction at the last tick left one frame, the put of u:a, where the
\* log held two and c:a had been put before.
C21_Witness ==
    /\ last.op = "compact" /\ last.err = ErrNil /\ last.dead
    /\ now = MaxTime
    /\ Len(disk.db.segs) = 1
    /\ disk.db.segs[1].f.op = OpPut /\ disk.db.segs[1].f.key = "a"
    /\ disk.db.segs[1].f.coll = "u"
    /\ h.index = [k \in {"u:a"} |-> v4HeaderSize]
    /\ BloomContains(h.bloom, "c:a")
    /\ h.offset = FileSize(disk.db)

\* C22: the header written when the log was created (magic, version, salt,
\* KEK nonce, sealed DEK) is the header of the log in every later state:
\* put, delete, batch commit, close and reopen do not touch it and Compact
\* copies it, so an Open with the password of creation gets past the header
\* and the DEK it unseals is the one the records were sealed with.
C22_HeaderNeverChanges ==
    /\ disk.db.kind = "log"
    /\ disk.db.hdr = Created.db.hdr
    /\ \A r \in Open(disk.db, disk.hint, "pw1", "s1", 1, "dek1") :
          r.err = ErrNil /\ r.h.dek = "dek1" /\ r.db.hdr = Created.db.hdr

\* A compaction that dropped a frame has just returned, the clock has
\* moved since the log was created, and the header is the one of creation.
C22_Witness ==
    /\ last.op = "compact" /\ last.err = ErrNil /\ last.dead
    /\ now > 0
    /\ Len(disk.db.segs) = 1
    /\ disk.db.hdr = NewHeader("pw1", "s1", 1, "dek1")
    /\ disk.hint = NoFile

\* C23: in Compact the temp file is renamed to the path of the log only
\* after secureDelete has written random bytes over every byte of the old
\* log, flushed them and removed the file.
C23_EraseBeforeRename ==
    [][CompactRename =>
          /\ mu.w.pos >= mu.w.size
          /\ mu.w.flushed
          /\ disk.db = NoFile]_vars

\* The order holds in a Compact in which no call of secureDelete returned
\* an error.
C23_EraseBeforeRenameNoError ==
    [][(CompactRename /\ faults = 0) =>
          /\ mu.w.pos >= mu.w.size
          /\ mu.w.flushed
          /\ disk.db = NoFile]_vars

\* A Compact has renamed the temp file over a log of more than one chunk
\* of which secureDelete had overwritten less than the whole.
C23_RenamedOverOldBytes ==
    /\ mu.w.op = "compact" /\ mu.w.pc = "hint"
    /\ mu.w.size > eraseChunk
    /\ mu.w.pos < mu.w.size
    /\ disk.db = mu.w.ct.file

\* The frame that starts at offset, as a set: empty if none starts there.
FramesAt(f, offset) ==
    {f.segs[i].f : i \in {j \in 1..Len(f.segs) : SegStart(f.segs, j) = offset}}

\* The keys of the index whose offset is the start of a frame written for
\* another key.
Misplaced(hd, f) ==
    {p \in Pairs :
        LET ck == compositeKey(p[1], p[2])
        IN  /\ ck \in DOMAIN hd.index
            /\ \E fr \in FramesAt(f, hd.index[ck]) :
                   fr.op = OpPut /\ compositeKey(fr.coll, fr.key) # ck}

C24_WitnessExpired ==
    /\ IsOpen
    /\ <<"u", "a">> \in Misplaced(h, disk.db)
    /\ Get(h, disk.db, "u", "a", now) = {GetErr(ErrNotFound)}

\* The values handed to Put, PutWithTTL and batch.Put.
Plaintexts == {i[3] : i \in PutInputs} \cup {w.value : w \in BatchPuts}

\* C25: no value is in the log in the clear: the value bytes of every put
\* frame, whether written by Put, PutWithTTL, Batch.Commit or Compact, are
\* the AEAD ciphertext under the DEK of a value handed to the store or of
\* its deflate stream, and a tombstone has no value bytes.
C25_NoPlaintextOnDisk ==
    /\ disk.db.kind = "log"
    /\ \A i \in 1..Len(disk.db.segs) :
          LET fr == disk.db.segs[i].f
          IN  IF fr.op = OpPut
              THEN /\ fr.val.t = "ct"
                   /\ fr.val \notin Plaintexts
                   /\ fr.val \notin {compress(v) : v \in Plaintexts}
                   /\ fr.val.k = "dek1"
                   /\ fr.val.p \in {FinalValue(v).v : v \in Plaintexts}
                   /\ ByteLen(fr.val) = ByteLen(fr.val.p) + authTagSize
              ELSE fr.val = NilBytes

\* A compaction has rewritten a log of two puts, one of them of a value
\* stored compressed, and both frames hold ciphertext.
C25_Witness ==
    /\ last.op = "compact" /\ last.err = ErrNil
    /\ Len(disk.db.segs) = 2
    /\ \E i \in 1..2 : /\ disk.db.segs[i].f.flags = FlagCompressed
                        /\ disk.db.segs[i].f.val.p = compress(VLong)
    /\ \E i \in 1..2 : /\ disk.db.segs[i].f.flags = FlagNone
                        /\ disk.db.segs[i].f.val.p = VShort
    /\ \A i \in 1..2 : disk.db.segs[i].f.val.t = "ct"

\* The file at the path of the log exists, is not empty, and its magic is
\* not NOKHAL, or its version byte is not 4, or it has fewer than 99 bytes.
BadHeader(f) ==
    /\ FileSize(f) > 0
    /\ \/ ReadHeader(f).n < Len(magicHeader)
       \/ ReadHeader(f).magic # magicHeader
       \/ ReadHeader(f).version # version
       \/ FileSize(f) < v4HeaderSize

\* C26: an Open of such a file returns the invalid file error and no
\* handle, and leaves the file as it was.
C26_BadHeaderInvalidFile ==
    [][\A pw \in Passwords :
          (DoOpen(pw) /\ BadHeader(disk.db)) =>
              /\ last'.err = ErrInvalidFile
              /\ h' = NoHandle
              /\ disk' = disk]_vars

\* The part of C26 the code keeps: the Open fails, returns no handle and
\* leaves the files as they were, and the error is the invalid file error
\* unless the magic is right and the version byte is not 4.
C26_BadHeaderRejected ==
    [][\A pw \in Passwords :
          (DoOpen(pw) /\ BadHeader(disk.db)) =>
              /\ last'.err # ErrNil
              /\ h' = NoHandle
              /\ disk' = disk
              /\ (last'.err # ErrInvalidFile) =>
                     /\ ReadHeader(disk.db).n >= Len(magicHeader)
                     /\ ReadHeader(disk.db).magic = magicHeader
                     /\ ReadHeader(disk.db).version # version
                     /\ last'.err = ErrUnsupported]_vars

\* An Open of a log of 99 bytes or more with the magic NOKHAL and version
\* byte 3 has returned the unsupported version error.
C26_OldVersionRejectedOtherwise ==
    /\ last.op = "open" /\ last.err = ErrUnsupported
    /\ disk.db.kind = "log"
    /\ disk.db.hdr.magic = magicHeader /\ disk.db.hdr.version = oldVersion
    /\ Len(disk.db.segs) > 0
    /\ h = NoHandle

\* The strings a key of a listed collection can be: the suffixes of the
\* composite keys written.
ListKeys ==
    UNION {{SubSeq(compositeKey(p[1], p[2]), i, Len(compositeKey(p[1], p[2]))) :
               i \in 1..(Len(compositeKey(p[1], p[2])) + 1)} : p \in ListPairs}

\* C27: whatever the order in which the map is ranged over, List(collection)
\* returns exactly the keys k for which the composite key collection:k is
\* in the index, each once and without the collection prefix; a key of
\* another collection is not returned, also when it starts with the name of
\* the listed collection and the delimiter.
C27_ListIsCollectionOfIndex ==
    IsOpen =>
        \A c \in {p[1] : p \in ListPairs}, order \in Orders(DOMAIN h.index) :
            LET r == ListSlice(h, c, order)
            IN  /\ \A k \in ListKeys :
                      (\E i \in 1..Len(r) : r[i] = k) <=>
                          compositeKey(c, k) \in DOMAIN h.index
                /\ \A i \in 1..Len(r) : r[i] \in ListKeys
                /\ \A i, j \in 1..Len(r) : r[i] = r[j] => i = j
                /\ \A p \in ListPairs :
                      (p[1] # c /\ compositeKey(c, p[2]) \notin DOMAIN h.index) =>
                          \A i \in 1..Len(r) : r[i] # p[2]

\* The index holds u:a:b and c:u:a: List of u returns the key a:b alone.
C27_Witness ==
    /\ IsOpen
    /\ DOMAIN h.index = {"u:a:b", "c:u:a"}
    /\ \A order \in Orders(DOMAIN h.index) :
          /\ ListSlice(h, "u", order) = <<"a:b">>
          /\ ListSlice(h, "c", order) = <<"u:a">>

\* C28: a Delete of a key that is not in the index returns nil and changes
\* nothing: the files, the offset, the index and the bloom filter are as
\* before.  A Delete of a key that is in the index appends one frame, a
\* tombstone for the key with an all-zero nonce, no value bytes and no
\* expiry, moves the offset by the size of that frame, removes the key from
\* the index, leaves the other entries and the bloom filter as they were.
C28_DeleteEffect ==
    [][\A p \in DeleteInputs :
          DoDelete(p[1], p[2]) =>
              LET ck == compositeKey(p[1], p[2])
                  old == disk.db.segs
                  new == disk'.db.segs
              IN  /\ last'.err = ErrNil
                  /\ disk'.hint = disk.hint /\ disk'.tmp = disk.tmp
                  /\ disk'.db.hdr = disk.db.hdr
                  /\ h'.bloom = h.bloom
                  /\ IF ck \notin DOMAIN h.index
                     THEN /\ new = old
                          /\ h' = h
                     ELSE /\ Len(new) = Len(old) + 1
                          /\ SubSeq(new, 1, Len(old)) = old
                          /\ IsWhole(new[Len(new)])
                          /\ new[Len(new)].f.crc = Checksum(new[Len(new)].f)
                          /\ new[Len(new)].f.op = OpDelete
                          /\ new[Len(new)].f.coll = p[1]
                          /\ new[Len(new)].f.key = p[2]
                          /\ new[Len(new)].f.nonce = 0
                          /\ new[Len(new)].f.val = NilBytes
                          /\ ByteLen(new[Len(new)].f.val) = 0
                          /\ new[Len(new)].f.exp = 0
                          /\ new[Len(new)].f.flags = FlagNone
                          /\ h'.offset = h.offset + new[Len(new)].n
                          /\ DOMAIN h'.index = DOMAIN h.index \ {ck}
                          /\ \A k \in DOMAIN h'.index : h'.index[k] = h.index[k]]_vars

\* A Delete of u:a, which was in the index, has left a tombstone as the
\* second frame of the log; the bloom filter still answers present.
C28_Witness ==
    /\ last.op = "delete" /\ last.was /\ last.c = "u" /\ last.k = "a"
    /\ Len(disk.db.segs) = 2
    /\ LastSeg.f.op = OpDelete /\ LastSeg.f.nonce = 0 /\ LastSeg.f.val = NilBytes
    /\ "u:a" \notin DOMAIN h.index
    /\ BloomContains(h.bloom, "u:a")
    /\ h.offset = FileSize(disk.db)

\* A Delete of c:a, which is not in the index, has returned on a log whose
\* only frame is the put of u:a.
C28_WitnessAbsent ==
    /\ last.op = "delete" /\ ~last.was /\ last.c = "c" /\ last.k = "a"
    /\ ~BloomContains(h.bloom, "c:a")
    /\ Len(disk.db.segs) = 1
    /\ LastSeg.f.op = OpPut /\ LastSeg.f.coll = "u"
    /\ h.offset = FileSize(disk.db)

\* The prefixes scanned: everything, a collection, one composite key, a
\* composite key never written, and a prefix of no key.
ScanPrefixes == {"", "u:", "c:a", "u:b", "a"}

\* The value a put frame was written for.
PlainOf(fr) == IF fr.flags = FlagCompressed THEN fr.val.p.of ELSE fr.val.p

\* The pairs whose last frame in the log is a put that has not expired at t.
LivePairs(f, t) ==
    {p \in Pairs :
        LET i == LatestOf(f, p[1], p[2])
        IN  /\ i > 0
            /\ f.segs[i].f.op = OpPut
            /\ ~(f.segs[i].f.exp > 0 /\ f.segs[i].f.exp < t)}

\* C29: ScanPrefix(prefix) returns no error and exactly one record for each
\* composite key that starts with prefix and whose last frame in the log,
\* read from the header to the append offset, is a put that has not
\* expired: a later put has replaced an earlier one, a later delete or
\* expired put has removed it; the record has the collection, key,
\* timestamp and expiry of that put and the value that was put.
C29_ScanPrefixReduction ==
    IsOpen =>
        \A prefix \in ScanPrefixes :
            LET live == {p \in LivePairs(disk.db, now) :
                            HasPrefix(compositeKey(p[1], p[2]), prefix)}
                rs == ScanPrefix(h, disk.db, prefix, now)
            IN  /\ Cardinality(rs) = 1
                /\ \A r \in rs :
                      /\ r.err = ErrNil
                      /\ DOMAIN r.results = {compositeKey(p[1], p[2]) : p \in live}
                      /\ Cardinality({<<r.results[k].Collection, r.results[k].Key>> :
                                         k \in DOMAIN r.results})
                            = Cardinality(DOMAIN r.results)
                      /\ \A p \in live :
                            LET fr == disk.db.segs[LatestOf(disk.db, p[1], p[2])].f
                                rec == r.results[compositeKey(p[1], p[2])]
                            IN  /\ rec.Collection = p[1] /\ rec.Key = p[2]
                                /\ rec.Timestamp = fr.ts /\ rec.ExpiresAt = fr.exp
                                /\ rec.Op = OpPut
                                /\ rec.Value = PlainOf(fr)
                                /\ rec.Value \in Plaintexts

\* The log holds a put of c:a without expiry and then one with an expiry
\* that has passed: the scan of everything returns no record.
C29_Witness ==
    /\ IsOpen
    /\ Len(disk.db.segs) = 2
    /\ disk.db.segs[1].f.coll = "c" /\ disk.db.segs[1].f.exp = 0
    /\ disk.db.segs[1].f.op = OpPut
    /\ disk.db.segs[2].f.coll = "c" /\ disk.db.segs[2].f.exp > 0
    /\ disk.db.segs[2].f.exp < now
    /\ ScanPrefix(h, disk.db, "", now) = {ScanOk(NoResults)}

\* The log holds a short and then a long put of u:a: the scan of u: returns
\* one record, with the long value.
C29_WitnessReplaced ==
    /\ IsOpen
    /\ Len(disk.db.segs) = 2
    /\ disk.db.segs[1].f.flags = FlagNone /\ disk.db.segs[2].f.flags = FlagCompressed
    /\ \A r \in ScanPrefix(h, disk.db, "u:", now) :
          /\ DOMAIN r.results = {"u:a"}
          /\ r.results["u:a"].Value = VLong

\* C30: Filter(collection, fn) returns no error and exactly one value for
\* each key of the collection whose last frame in the log is an unexpired
\* put whose value fn accepts, that value; a key whose earlier put was
\* accepted and whose last put is not, a key deleted or expired afterwards,
\* and a key of another collection contribute nothing.
C30_FilterLatestMatching ==
    IsOpen =>
        \A c \in Collections, fn \in Preds :
            LET want == {p \in LivePairs(disk.db, now) :
                            /\ p[1] = c
                            /\ Holds(fn, p[2],
                                     PlainOf(disk.db.segs[LatestOf(disk.db, p[1], p[2])].f))}
                rs == Filter(h, disk.db, c, fn, now)
            IN  /\ Cardinality(rs) = 1
                /\ \A r \in rs :
                      /\ r.err = ErrNil
                      /\ DOMAIN r.results = {p[2] : p \in want}
                      /\ \A p \in want :
                            r.results[p[2]] =
                                PlainOf(disk.db.segs[LatestOf(disk.db, p[1], p[2])].f)
                      /\ \A order \in Orders(DOMAIN r.results) :
                            /\ Len(FilterSlice(r.results, order)) = Cardinality(want)
                            /\ \A i \in 1..Len(order) :
                                  FilterSlice(r.results, order)[i] \in Plaintexts

\* The log holds a short and then a long put of u:a: the predicate that
\* accepts short values accepted the first and Filter returns nothing.
C30_Witness ==
    /\ IsOpen
    /\ Len(disk.db.segs) = 2
    /\ disk.db.segs[1].f.coll = "u" /\ disk.db.segs[1].f.key = "a"
    /\ disk.db.segs[1].f.flags = FlagNone
    /\ disk.db.segs[2].f.coll = "u" /\ disk.db.segs[2].f.key = "a"
    /\ disk.db.segs[2].f.flags = FlagCompressed
    /\ Filter(h, disk.db, "u", "short", now) = {ScanOk(NoResults)}
    /\ \A r \in Filter(h, disk.db, "u", "all", now) : r.results = [k \in {"a"} |-> VLong]

\* Two keys of u hold the same value and Filter returns it twice.
C30_WitnessTwoKeys ==
    /\ IsOpen
    /\ \A r \in Filter(h, disk.db, "u", "short", now) :
          /\ DOMAIN r.results = {"a", "b"}
          /\ \A order \in Orders({"a", "b"}) :
                FilterSlice(r.results, order) = <<VShort, VShort>>

\* The bits of the composite keys of an index.
BitsOf(index) == {BloomIdx(k) : k \in DOMAIN index}

\* C31: after a Compact that returned nil the bloom filter has a bit set only
\* for the composite keys of the new index, so a key that is not in the new
\* index and shares its bit with none that is, is answered absent.
C31_CompactRebuildsBloom ==
    (IsOpen /\ last.op = "compact" /\ last.err = ErrNil) =>
        /\ h.bloom = BitsOf(h.index)
        /\ \A p \in Pairs :
              LET k == compositeKey(p[1], p[2])
              IN  (k \notin DOMAIN h.index /\ BloomIdx(k) \notin BitsOf(h.index))
                      => ~BloomContains(h.bloom, k)

\* A Compact returned nil with the filter equal to the bits of its new index.
C31_CompactWithExactBloom ==
    /\ IsOpen /\ last.op = "compact" /\ last.err = ErrNil /\ last.dead
    /\ h.index # EmptyIndex
    /\ h.bloom = BitsOf(h.index)

\* A Compact returned nil and the filter still answers present for a key that
\* was deleted before it.
C31_DeletedKeyStillInBloom ==
    /\ IsOpen /\ last.op = "compact" /\ last.err = ErrNil
    /\ h.index = EmptyIndex
    /\ BloomContains(h.bloom, "u:a")

\* C32: when Compact returns, with nil or with an error, no file is at
\* <path>.compact; when it returns nil no file is at <path>.hint either; and
\* a hint file appears only by a Close.
C32_CompactLeavesNoTempNoHint ==
    [][/\ (last'.op = "compact" /\ (DoCompact \/ \E step \in CompactFailSteps :
                                                    DoCompactFails(step)))
            => /\ disk'.tmp = NoFile
               /\ last'.err = ErrNil => disk'.hint = NoFile
       /\ (disk.hint = NoFile /\ disk'.hint # NoFile) => last'.op = "close"]_vars

\* The same where os.OpenFile of the temp file and the os.Remove of the hint
\* file do not fail.
C32_NoTempNoHintOtherwise ==
    [][/\ (last'.op = "compact" /\ (DoCompact \/ \E step \in CompactFailSteps \ {"create", "hint"} :
                                                    DoCompactFails(step)))
            => /\ disk'.tmp = NoFile
               /\ last'.err = ErrNil => disk'.hint = NoFile
       /\ (disk.hint = NoFile /\ disk'.hint # NoFile) => last'.op = "close"]_vars

\* Compact returned an error and the temp file of an earlier, interrupted
\* Compact is still there.
C32_TempLeftAfterError ==
    /\ last.op = "compact" /\ last.err = ErrIO /\ last.step = "create"
    /\ disk.tmp = TempLeft

\* Compact returned nil and the hint file of the last Close is still there.
C32_HintLeftAfterSuccess ==
    /\ last.op = "compact" /\ last.err = ErrNil
    /\ disk.hint # NoFile
    /\ disk.hint.offset # h.offset

\* The states loadIndexes builds on log f with no hint file at all.
FromHeader(f) == ScanLog(f, v4HeaderSize, EmptyIndex, NewBloomFilter)

\* C33: with a hint file that is missing, of another magic, or that ends in
\* the magic, the offset or the index, Open does not fail and the handle it
\* returns has the index, the bloom filter and the offset that the scan of
\* the whole log from byte 99 builds from an empty index and a new filter,
\* the same as with no hint file; nothing read from the hint is kept.
C33_BrokenHintIsNoHint ==
    /\ (h = NoHandle /\ disk.db.kind = "log" /\ ~loadHint(disk.hint).ok) =>
          /\ OpenExisting(disk.db, disk.hint, "pw1") = OpenExisting(disk.db, NoFile, "pw1")
          /\ \A r \in OpenExisting(disk.db, disk.hint, "pw1") : r.err = ErrNil
    /\ (last.op = "open" /\ ~loadHint(disk.hint).ok) =>
          /\ last.err = ErrNil /\ IsOpen
          /\ \E sc \in FromHeader(disk.db) :
                /\ sc.err = ErrNil
                /\ h.index = sc.index /\ h.bloom = sc.bloom /\ h.offset = sc.offset

\* An Open over a hint file that ends after its index, whose index has a key
\* the log no longer has.
C33_Witness ==
    /\ last.op = "open" /\ last.err = ErrNil /\ IsOpen
    /\ disk.hint.kind = "hint" /\ disk.hint.upto = "index"
    /\ "u:a" \in DOMAIN disk.hint.index
    /\ "u:a" \notin DOMAIN h.index

\* An Open over a hint file of another magic, on a log of two frames.
C33_WitnessMagic ==
    /\ last.op = "open" /\ last.err = ErrNil /\ IsOpen
    /\ disk.hint.kind = "hint" /\ disk.hint.magic # hintMagic
    /\ Len(disk.db.segs) = 2
    /\ Cardinality(DOMAIN h.index) = 2

\* The frames of the batch buffer are the last frames of the log file.
BufferWritten(f, frames) ==
    /\ Len(f.segs) >= Len(frames)
    /\ SubSeq(f.segs, Len(f.segs) - Len(frames) + 1, Len(f.segs)) = frames

\* C34: inside Batch.Commit the whole buffer is written by one file.Write,
\* then one file.Sync is issued, and the index, the bloom filter and the
\* offset change only after that sync returned nil, with every frame of the
\* buffer in the file; a Commit that returns nil made exactly one write and
\* one sync, and a Commit that returns an error changed none of the three.
C34_WriteSyncThenIndex ==
    [][(mu.w.op = "commit") =>
          /\ (mu'.w.op = "commit" /\ mu'.w.syncs > mu.w.syncs) =>
                (mu.w.writes = 1 /\ mu.w.syncs = 0 /\ BufferWritten(disk.db, mu.w.frames))
          /\ (mu'.w.op = "commit" /\ mu'.w.writes > mu.w.writes) =>
                (mu.w.writes = 0 /\ mu.w.syncs = 0)
          /\ (h'.index # h.index \/ h'.bloom # h.bloom \/ h'.offset # h.offset) =>
                /\ mu.w.writes = 1 /\ mu.w.syncs = 1 /\ mu.w.synced
                /\ BufferWritten(disk.db, mu.w.frames)
          /\ (mu'.w.op = "none" /\ mu.w.err = ErrNil) =>
                /\ mu.w.writes = 1 /\ mu.w.syncs = 1 /\ mu.w.synced
                /\ mu.w.i = Len(mu.w.frames) + 1 /\ h.offset = mu.w.off
          /\ (mu'.w.op = "none" /\ mu.w.err # ErrNil) =>
                /\ mu.w.i = 1 /\ h.offset = mu.w.off]_vars

\* A Commit of a put and a delete returned nil after one write and one sync.
C34_Witness ==
    /\ last.op = "commit" /\ last.err = ErrNil
    /\ last.nwrites = 1 /\ last.nsyncs = 1
    /\ Len(last.writes) >= 2
    /\ \E i, j \in 1..Len(last.writes) :
          last.writes[i].op = OpPut /\ last.writes[j].op = OpDelete
    /\ h.offset = FileSize(disk.db)

\* Inside Commit, the first update applied and the second not yet.
C34_WitnessMidUpdate ==
    /\ mu.w.op = "commit" /\ mu.w.pc = "update"
    /\ mu.w.i = 2 /\ Len(mu.w.frames) >= 2
    /\ "u:a" \in DOMAIN h.index
    /\ h.offset < FileSize(disk.db)

\* C35: with no call in progress Get and ScanPrefix("") agree at every
\* instant: the scan returns no error, and for every collection and key it
\* has a record under the composite key exactly when Get returns a value,
\* the value of that record, and Get answers not found for every other key;
\* the keys of the index whose record has not expired are the keys whose
\* last frame in the log is an unexpired put, each indexed at the start of
\* that frame.
C35_GetAgreesWithScan ==
    IsOpen =>
        /\ \A r \in ScanPrefix(h, disk.db, "", now) :
              /\ r.err = ErrNil
              /\ DOMAIN r.results \subseteq {compositeKey(p[1], p[2]) : p \in Pairs}
              /\ \A p \in Pairs :
                    LET k == compositeKey(p[1], p[2])
                        g == Get(h, disk.db, p[1], p[2], now)
                    IN  IF k \in DOMAIN r.results
                        THEN g = {GetOk(r.results[k].Value)}
                        ELSE g = {GetErr(ErrNotFound)}
        /\ Unexpired(h, disk.db, now) =
              {compositeKey(p[1], p[2]) : p \in LivePairs(disk.db, now)}
        /\ \A p \in LivePairs(disk.db, now) :
              h.index[compositeKey(p[1], p[2])] =
                  SegStart(disk.db.segs, LatestOf(disk.db, p[1], p[2]))

\* The index has c:a, whose record has expired, and u:a: the scan has u:a
\* alone and Get answers not found for c:a.
C35_Witness ==
    /\ IsOpen
    /\ DOMAIN h.index = {"c:a", "u:a"}
    /\ Unexpired(h, disk.db, now) = {"u:a"}
    /\ \A r \in ScanPrefix(h, disk.db, "", now) : DOMAIN r.results = {"u:a"}
    /\ Get(h, disk.db, "c", "a", now) = {GetErr(ErrNotFound)}
    /\ Get(h, disk.db, "u", "a", now) = {GetOk(PlainOf(LastSeg.f))}

\* C36: every key List(collection) returns, and every key an iterator
\* made at the same instant yields, is present at that instant: Get of it
\* does not answer not found; a key whose TTL has passed is in neither.
C36_ListedKeysArePresent ==
    IsOpen =>
        /\ \A c \in Collections : \A k \in List(h, c) :
              GetErr(ErrNotFound) \notin Get(h, disk.db, c, k, now)
        /\ \A prefix \in ScanPrefixes :
              LET it == NewIterator(h, prefix)
              IN  \A i \in 1..Len(it.keys) :
                     GetErr(ErrNotFound) \notin
                         Get(h, disk.db, SplitKey(it.keys[i])[1], SplitKey(it.keys[i])[2], now)

\* The same for the keys whose record has not expired.
C36_UnexpiredListedKeysArePresent ==
    IsOpen =>
        /\ \A c \in Collections : \A k \in List(h, c) :
              compositeKey(c, k) \in Unexpired(h, disk.db, now) =>
                  GetErr(ErrNotFound) \notin Get(h, disk.db, c, k, now)
        /\ \A prefix \in ScanPrefixes :
              LET it == NewIterator(h, prefix)
              IN  \A i \in 1..Len(it.keys) :
                     it.keys[i] \in Unexpired(h, disk.db, now) =>
                         GetErr(ErrNotFound) \notin
                             Get(h, disk.db, SplitKey(it.keys[i])[1],
                                 SplitKey(it.keys[i])[2], now)

\* List("c") and a new iterator over "c:" return a, whose TTL has passed.
C36_ExpiredKeyListed ==
    /\ IsOpen
    /\ "a" \in List(h, "c")
    /\ NewIterator(h, "c:a").keys = <<"c:a">>
    /\ Get(h, disk.db, "c", "a", now) = {GetErr(ErrNotFound)}

\* C37: after a crash at any point of a call, the handle of the next Open,
\* which loads the hint file when one is on disk, has the index and the
\* offset that a scan of the log at the canonical path from byte 99 builds;
\* a hint file on disk never has the offsets of another log.
C37_OpenAfterCrashEqualsFullScan ==
    (last.op = "open" /\ last.err = ErrNil /\ IsOpen /\ last.prev = NoHandle) =>
        \E sc \in FromHeader(disk.db) :
            /\ sc.err = ErrNil
            /\ h.index = sc.index /\ h.offset = sc.offset

\* The same for an Open that found no hint file it could load.
C37_EqualsFullScanWithoutHint ==
    (last.op = "open" /\ last.err = ErrNil /\ IsOpen /\ last.prev = NoHandle
        /\ ~loadHint(disk.hint).ok) =>
        \E sc \in FromHeader(disk.db) :
            /\ sc.err = ErrNil
            /\ h.index = sc.index /\ h.offset = sc.offset

\* An Open that loaded the hint file of the log Compact replaced: the index
\* has a key at an offset past the end of the log.
C37_OpenedFromStaleHint ==
    /\ last.op = "open" /\ last.err = ErrNil /\ IsOpen /\ last.prev = NoHandle
    /\ loadHint(disk.hint).ok
    /\ \E k \in DOMAIN h.index : h.index[k] >= FileSize(disk.db)

\* C38: when Compact returns an error, at whichever call, the log at the
\* canonical path is the one before the call, the index and the offset are
\* unchanged and describe it, the handle's file is open, and Get returns for
\* every key what it returned before the call.
C38_FailedCompactLeavesDatabase ==
    [][(last'.op = "compact" /\ last'.err # ErrNil
            /\ \E step \in CompactFailSteps : DoCompactFails(step)) =>
          /\ disk'.db = disk.db
          /\ h'.index = h.index /\ h'.offset = h.offset
          /\ h'.st = "open" /\ h'.fopen
          /\ Gets(h', disk'.db, now) = Gets(h, disk.db, now)]_vars

\* The same for the calls that fail before Compact closes db.file.
C38_EarlyFailureLeavesDatabase ==
    [][(last'.op = "compact" /\ last'.err # ErrNil
            /\ \E step \in {"create", "header", "frame", "sync"} : DoCompactFails(step)) =>
          /\ disk'.db = disk.db
          /\ h' = h
          /\ IsOpen
          /\ Gets(h', disk'.db, now) = Gets(h, disk.db, now)]_vars

\* Compact returned the error of os.Rename: no file is at the canonical
\* path, none at <path>.compact, and the index still names a key.
C38_LogGoneAfterFailedRename ==
    /\ last.op = "compact" /\ last.err = ErrIO /\ last.step = "rename"
    /\ disk.db = NoFile /\ disk.tmp = NoFile
    /\ h.st = "open" /\ ~h.fopen
    /\ DOMAIN h.index # {}

\* Compact returned the error of the last os.OpenFile: the compacted log is
\* in place and the handle has the index of the old one and no open file.
C38_OldIndexAfterFailedReopen ==
    /\ last.op = "compact" /\ last.err = ErrIO /\ last.step = "reopen"
    /\ disk.db.kind = "log"
    /\ h.st = "open" /\ ~h.fopen
    /\ h.offset > FileSize(disk.db)

\* No caller waits for b.mu while it has db.mu.
LockOrder ==
    \A t \in Callers :
        AtStep(t, "BLock") => \A i \in 1..Len(mu.held[t]) : mu.held[t][i] = "b"

\* A caller that is in no call has no lock.
ReleasedOnReturn ==
    \A t \in Callers :
        mu.todo[t] = <<>> =>
            /\ mu.held[t] = <<>>
            /\ t \notin mu.active \cup mu.blocked
            /\ mu.wm # t /\ mu.bm # t

\* While a caller is inside a call, some caller can take a step.
NoDeadlock ==
    (\E t \in Callers : mu.todo[t] # <<>>) => \E t \in Callers : CanStep(t)

\* C39: no interleaving of the calls of several callers on one handle and
\* one batch reaches a state where callers are inside calls and none can
\* go on; b.mu is taken before db.mu and never after it; a caller that has
\* returned, with nil or with an error, has no lock; and with a fair
\* scheduler every call that was made returns.
C39_NoDeadlock ==
    /\ [](LockOrder /\ ReleasedOnReturn /\ NoDeadlock)
    /\ \A t \in Callers : (mu.todo[t] # <<>>) ~> (mu.todo[t] = <<>>)

\* A Commit has both locks and is writing while a batch.Put waits for b.mu.
C39_Witness ==
    \E t1, t2 \in Callers :
        /\ mu.call[t1] = "commit" /\ mu.held[t1] = <<"b", "db">> /\ AtStep(t1, "write")
        /\ mu.call[t2] = "stage" /\ AtStep(t2, "BLock")
        /\ batch # <<>>

\* A Commit that has b.mu waits for a reader to leave, and the reader is
\* inside its call.
C39_WitnessWriterWaits ==
    \E t1, t2 \in Callers :
        /\ mu.call[t1] = "commit" /\ AtStep(t1, "Drain") /\ mu.wait = 1
        /\ t2 \in mu.active /\ AtStep(t2, "read")

\* A reader is blocked behind a writer that has db.mu.
C39_WitnessReaderBlocked ==
    \E t1, t2 \in Callers :
        /\ mu.wm = t1 /\ AtStep(t1, "write")
        /\ t2 \in mu.blocked /\ AtStep(t2, "RWait")

\* A call on the closed handle has returned its error and released db.mu.
C39_WitnessErrorReturn ==
    \E t \in Callers :
        /\ ~IsOpen /\ mu.call[t] = "put" /\ mu.todo[t] = <<>>
        /\ mu.wm = NoCaller /\ ~mu.announced

\* The read calls, and those among their errors that a record brings about.
ReadOps ==
    {"get", "list", "scan", "filter", "filterprefix", "iterator", "next", "key", "value"}
ReadErrs == {ErrNotFound, ErrChecksumMismatch, ErrDecryption}

\* C40: a read call (Get, List, ScanPrefix, Filter, FilterPrefix,
\* NewIterator, Next, Key, Value) leaves the index, the bloom filter, the
\* append offset and the files as they were, also when it returns
\* ErrNotFound for an expired key, ErrChecksumMismatch or ErrDecryption; and
\* after such an error the handle is still open and Get of every other key
\* returns what it returned before the call.
C40_ReadsChangeNothing ==
    [][(last'.op \in ReadOps /\ last' # last) =>
          /\ h'.index = h.index /\ h'.bloom = h.bloom /\ h'.offset = h.offset
          /\ disk' = disk
          /\ last'.err \in ReadErrs =>
                /\ h'.st = "open" /\ h'.fopen
                /\ \A p \in ReadPairs :
                      compositeKey(p[1], p[2]) # last'.ck =>
                         Get(h', disk'.db, p[1], p[2], now')
                            = Get(h, disk.db, p[1], p[2], now)]_vars

\* Get has returned ErrNotFound for a key of the index whose record has
\* expired, and the other key is read with its value.
C40_Witness ==
    /\ IsOpen /\ last.op = "get" /\ last.err = ErrNotFound
    /\ last.ck \in DOMAIN h.index
    /\ \E p \in ReadPairs :
          /\ compositeKey(p[1], p[2]) # last.ck
          /\ Get(h, disk.db, p[1], p[2], now) = {GetOk(VShort)}

\* A read has returned ErrChecksumMismatch and another key is read with its
\* value.
C40_WitnessChecksum ==
    /\ IsOpen /\ last.op \in {"get", "value"} /\ last.err = ErrChecksumMismatch
    /\ \E p \in ReadPairs :
          /\ compositeKey(p[1], p[2]) # last.ck
          /\ Get(h, disk.db, p[1], p[2], now) = {GetOk(VShort)}

\* A read has returned ErrDecryption.
C40_WitnessDecryption ==
    IsOpen /\ last.op \in ReadOps /\ last.err = ErrDecryption

\* A scan has ended with ErrChecksumMismatch.
C40_WitnessScan ==
    IsOpen /\ last.op \in {"scan", "filter", "filterprefix"}
           /\ last.err = ErrChecksumMismatch

====
